---- MODULE Spec2Model ----
(***************************************************************************)
(* A model of dedupe/api.py: the matcher classes that compose blocking,    *)
(* scoring and clustering (DedupeMatching, RecordLinkMatching,             *)
(* GazetteerMatching, StaticMatching).                                     *)
(*                                                                         *)
(* dedupe.blocking, dedupe.core and dedupe.clustering are imported by      *)
(* api.py but are not part of the sources at hand; the operators that      *)
(* stand for them (Blocker, scoreDuplicates, scoreGazette, cluster,        *)
(* greedyMatching, pair_gazette_matching, gazetteMatching) follow the      *)
(* written specification of their contracts.                               *)
(***************************************************************************)
EXTENDS Integers, Sequences, FiniteSets, Bags, TLC

(***************************************************************************)
(* Bounds of the model.                                                    *)
(***************************************************************************)
MaxId == 3
MaxLinkId == 2
MaxGazId == 2
MaxFileLen == 4
MaxTrainData == 2
MaxLabelled == 2

RecordIDs == 1..MaxId
\* The ids of each of the two datasets of record linkage.
LinkIDs == 1..MaxLinkId
Names == {"Pat", "Sam"}
\* A city of "" is an empty field: predicates on it yield no block key.
Cities == {"", "x"}

\* RecordDict: a record's field values.
Records == [name : Names, city : Cities]

\* Data: a dictionary record_id -> record, of one record at least
\* (core.sqlite_id_type reads the first key of every dataset it is given).
Datasets == UNION {[S -> Records] : S \in (SUBSET RecordIDs) \ {{}}}
\* The records of the datasets of record linkage: a record with both fields,
\* one that differs from it in the name, one with the city left empty.
LinkRecords == {r \in Records : r.name = "Pat" \/ r.city = "x"}
LinkDatasets == UNION {[S -> LinkRecords] : S \in (SUBSET LinkIDs) \ {{}}}

\* The ids and records of gazetteer matching, canonical and messy alike.
GazIDs == 1..MaxGazId
GazRecords == {r \in Records : r.city = "x"}
GazDatasets == UNION {[S -> GazRecords] : S \in (SUBSET GazIDs) \ {{}}}
\* The messy datasets searched with: every set of query ids, the records alike.
MessyDatasets == {d \in GazDatasets : \A k \in DOMAIN d : d[k].name = "Pat"}

Range(s) == {s[i] : i \in DOMAIN s}

(***************************************************************************)
(* Blocking predicates and the Blocker (dedupe.blocking).                  *)
(***************************************************************************)
PredicateNames == {"name", "city", "name_city", "name_index"}

\* The predicates that look a record's value up in an index of the blocker,
\* which must have been built (Blocker.indexAll) from the values of a field.
IndexPredicates == {"name_index"}

\* Predicate: record -> set of block keys (zero or more).
Apply(p, r) ==
    CASE p = "name" -> {<<r.name, "">>}
      [] p = "city" -> IF r.city = "" THEN {} ELSE {<<"", r.city>>}
      [] p = "name_city" -> IF r.city = "" THEN {} ELSE {<<r.name, r.city>>}
      [] p = "name_index" -> {<<r.name, "">>}

\* The predicate lists a matcher may hold (self.predicates), in order.
PredicateLists ==
    {<<"name">>, <<"city">>, <<"name_city">>,
     <<"name", "city">>, <<"city", "name">>, <<"name", "name_city">>,
     <<"name", "city", "name_city">>}

\* Blocker.__call__(data.items()): the (block_key, record_id) postings of
\* every record under every predicate.
Blocker(preds, data) ==
    UNION {{[block_key |-> <<p, k>>, record_id |-> id] : k \in Apply(p, data[id])}
           : <<p, id>> \in Range(preds) \X DOMAIN data}

\* The blocker's indices when none was built, or after Blocker.resetIndices.
NoIndices == [built |-> FALSE, docs |-> {}]

\* The fields the index predicates of a predicate list read.
IndexFields(preds) == {"name" : i \in {j \in DOMAIN preds : preds[j] \in IndexPredicates}}

\* Blocker.indexAll(data): for every index field, the values the records
\* have in it are added to the index of the field.
indexAll(idx, preds, data) ==
    IF IndexFields(preds) = {} THEN idx
    ELSE [built |-> TRUE, docs |-> idx.docs \cup {data[id].name : id \in DOMAIN data}]

\* Blocker.resetIndices(): the indices are dropped.
resetIndices(idx) == NoIndices

\* The indices left as they are.
KeepIndices(idx) == idx

\* Lines 241 and 373 of the pairs generators: self.blocker.resetIndices(),
\* once the postings are inserted.
ResetAfterInsert(idx) == resetIndices(idx)

\* A predicate applied by a blocker whose indices are idx: an index
\* predicate yields the key of the record's value when the index holds the
\* value, and no key when it does not.
Lookup(p, r, idx) ==
    IF p \in IndexPredicates /\ r.name \notin idx.docs THEN {} ELSE Apply(p, r)

\* Blocker.__call__(data.items()) on a blocker whose indices are idx.
IndexedBlocker(preds, data, idx) ==
    UNION {{[block_key |-> <<p, k>>, record_id |-> id] : k \in Lookup(p, data[id], idx)}
           : <<p, id>> \in Range(preds) \X DOMAIN data}

\* The block keys the blocker produces for one record.
BlockKeys(preds, r) ==
    UNION {{<<p, k>> : k \in Apply(p, r)} : p \in Range(preds)}

(***************************************************************************)
(* The classifier (a trained probability estimator) and the scorer         *)
(* (dedupe.core).  Scores are 0..2, standing for 0.0, 0.5 and 1.0.         *)
(***************************************************************************)
Weights == {0, 1}
Classifiers == [name : Weights, city : Weights]
Scores == {0, 1, 2}
ScoreOne == CHOOSE s \in Scores : \A t \in Scores : t <= s

\* classifier.predict_proba on the feature vector of a record pair.
Probability(clf, ra, rb) ==
    clf.name * (IF ra.name = rb.name THEN 1 ELSE 0)
    + clf.city * (IF ra.city = rb.city THEN 1 ELSE 0)

VARIABLES
    predicates,     \* self.predicates
    classifier,     \* self.classifier
    op,             \* the API call in progress or last ended
    pc,             \* position of that call: "idle", a stage of it, "returned", "raised"
    data,           \* DedupeMatching: the data argument
    gen,            \* state of the generator object returned by pairs()
    temp_dir,       \* the TemporaryDirectory of pairs() exists on disk
    blocking_map,   \* table blocking_map of blocks.db (DedupeMatching.pairs)
    cursor,         \* rows of the SELECT not yet fetched (a bag)
    emitted,        \* the pairs yielded so far (a bag)
    threshold,      \* the threshold argument
    pair_scores,    \* the scored pairs array
    mmap_file,      \* the file backing pair_scores exists on disk
    clusters,       \* partition's return value
    data_1,         \* RecordLinkMatching: the data_1 argument
    data_2,         \* RecordLinkMatching: the data_2 argument
    blocking_map_a, \* table blocking_map_a of blocks.db (RecordLinkMatching.pairs)
    blocking_map_b, \* table blocking_map_b of blocks.db
    constraint,     \* join's constraint argument
    links,          \* join's return value
    indexed_records,\* table indexed_records of the gazetteer's blocks.db
    table_exists,   \* table indexed_records has been created
    indexed_data,   \* self.indexed_data
    in_transaction, \* self.con has a transaction open
    temp_table,     \* temporary table blocking_map: "none", "uncommitted", "committed"
    results,        \* search's return value
    pair_blocks,    \* blocks: the groups of rows of the SELECT not yet yielded
    blocks,         \* blocks: the blocks yielded so far by the generator
    data_model,     \* self.data_model
    settings_file,  \* the settings file: the sequence of its pickled objects
    exception,      \* the message of the exception a constructor or join's assertion raised, or "none"
    indices,        \* the indices of self.blocker: built or not, and the values indexed
    matcher,        \* active matchers: the instance the last call was made on
    training_pairs, \* self.training_pairs of every active matcher
    active_learner, \* self.active_learner of every active matcher
    clf_obj,        \* the classifier object self.classifier is, for every active matcher
    clf_state,      \* the state of every classifier object
    learned,        \* self.predicates as train has set it, for every active matcher
    labeled_pairs,  \* the labeled_pairs argument of mark_pairs
    training_file   \* the training_file argument of prepare_training

matcherVars == <<predicates, classifier, data_model>>
loadVars == <<settings_file, exception>>
blockerVars == <<indices>>
learnVars == <<training_pairs, active_learner, clf_obj, clf_state, learned>>
trainArgs == <<labeled_pairs, training_file>>
trainVars == <<matcher, learnVars, trainArgs>>
callVars == <<op, pc, threshold>>
pairsVars == <<gen, temp_dir, cursor, emitted>>
dedupeVars == <<data, blocking_map, clusters>>
scoreVars == <<pair_scores, mmap_file>>
linkVars == <<data_1, data_2, blocking_map_a, blocking_map_b, constraint, links>>

gazVars == <<indexed_records, table_exists, indexed_data, in_transaction, temp_table,
             results, pair_blocks, blocks>>

vars == <<matcherVars, loadVars, blockerVars, trainVars, callVars, pairsVars, dedupeVars, scoreVars, linkVars, gazVars>>

(***************************************************************************)
(* DedupeMatching.pairs                                                    *)
(***************************************************************************)

\* The join without its USING (block_key): every two postings are joined.
DedupeJoinCross(map) ==
    {<<pq[1].block_key, pq[1].record_id, pq[2].record_id>> :
        pq \in {x \in map \X map : x[1].record_id < x[2].record_id}}

\* The rows of
\*   FROM blocking_map a INNER JOIN blocking_map b USING (block_key)
\*   WHERE a.record_id < b.record_id
\* one row per pair of postings with the same key.
DedupeJoin(map) ==
    {<<pq[1].block_key, pq[1].record_id, pq[2].record_id>> :
        pq \in {x \in map \X map : /\ x[1].block_key = x[2].block_key
                                   /\ x[1].record_id < x[2].record_id}}

\* SELECT a.record_id, b.record_id without DISTINCT: one result row per joined row.
SelectAll(rows) ==
    LET prs == {<<r[2], r[3]>> : r \in rows}
    IN  [pr \in prs |-> Cardinality({r \in rows : <<r[2], r[3]>> = pr})]

\* SELECT DISTINCT a.record_id, b.record_id
SelectDistinct(rows) == SetToBag({<<r[2], r[3]>> : r \in rows})

\* The pair yielded for a fetched row: ((a, data[a]), (b, data[b])).
RecordPair(row, d1, d2) == <<<<row[1], d1[row[1]]>>, <<row[2], d2[row[2]]>>>>

One(x) == SetToBag({x})

\* The ids of a yielded record pair.
PairIds(rp) == <<rp[1][1], rp[2][1]>>

\* Running a pairs generator from a cursor to exhaustion (list(pairs)): every
\* row is yielded, as often as the cursor holds it.
Drain(cur, d1, d2) ==
    [rp \in {RecordPair(row, d1, d2) : row \in BagToSet(cur)} |-> CopiesIn(PairIds(rp), cur)]

\* No API call is in progress and no generator is left open.
CallEnded ==
    /\ pc \in {"idle", "returned", "raised"}
    /\ gen \in {"none", "exhausted", "closed", "raised"}

\* No API call is in progress; a generator may be suspended at a yield.
NoCallRunning == pc \in {"idle", "returned", "raised"}

\* pairs(data): calling a generator function runs none of its body.
DedupePairsCall ==
    /\ CallEnded
    /\ op' = "pairs"
    /\ pc' = "returned"
    /\ gen' = "created"
    /\ emitted' = EmptyBag
    /\ cursor' = EmptyBag
    /\ UNCHANGED <<matcherVars, trainVars, loadVars, blockerVars, threshold, temp_dir, dedupeVars, scoreVars, linkVars, gazVars>>

\* The generator body from a fetch on: yield the next row, or, the cursor
\* exhausted, close it, leave both with-blocks (the temporary directory is
\* removed) and end.
DedupePairsFetch(cur, map) ==
    IF cur = EmptyBag
    THEN /\ gen' = "exhausted"
         /\ temp_dir' = FALSE
         /\ blocking_map' = {}
         /\ cursor' = EmptyBag
         /\ emitted' = emitted
    ELSE \E row \in BagToSet(cur) :
            /\ gen' = "suspended"
            /\ temp_dir' = TRUE
            /\ blocking_map' = map
            /\ cursor' = cur (-) One(row)
            /\ emitted' = emitted (+) One(RecordPair(row, data, data))

\* First next(): the temporary directory and blocks.db are created, the
\* blocker's postings inserted, the SELECT executed; then the first fetch.
DedupePairsStart ==
    /\ op = "pairs"
    /\ gen = "created"
    /\ LET idx == indexAll(indices, predicates, data)
           map == IndexedBlocker(predicates, data, idx)
       IN  /\ indices' = ResetAfterInsert(idx)
           /\ DedupePairsFetch(SelectDistinct(DedupeJoin(map)), map)
    /\ UNCHANGED <<matcherVars, trainVars, loadVars, callVars, data, clusters, scoreVars, linkVars, gazVars>>

\* A later next().
DedupePairsNext ==
    /\ op = "pairs"
    /\ gen = "suspended"
    /\ DedupePairsFetch(cursor, blocking_map)
    /\ UNCHANGED <<matcherVars, trainVars, loadVars, blockerVars, callVars, data, clusters, scoreVars, linkVars, gazVars>>

\* The consumer drops or closes the generator while it is suspended at the
\* yield: GeneratorExit leaves the with-blocks, which remove the directory.
\* A generator that never started has created nothing.
DedupePairsClose ==
    /\ op = "pairs"
    /\ gen \in {"created", "suspended"}
    /\ gen' = "closed"
    /\ temp_dir' = FALSE
    /\ blocking_map' = {}
    /\ cursor' = EmptyBag
    /\ UNCHANGED <<matcherVars, trainVars, loadVars, blockerVars, callVars, data, emitted, clusters, scoreVars, linkVars, gazVars>>

(***************************************************************************)
(* Scoring (dedupe.core.scoreDuplicates) and clustering                    *)
(* (dedupe.clustering.cluster), after their written contracts.             *)
(***************************************************************************)

\* One array row (pair of ids, score) per record pair whose score is not
\* below the threshold.
scoreDuplicates(record_pairs, clf, thr) ==
    LET Score(rp) == Probability(clf, rp[1][2], rp[2][2])
        kept == {rp \in BagToSet(record_pairs) : Score(rp) >= thr}
    IN  [e \in {<<PairIds(rp), Score(rp)>> : rp \in kept} |->
            CopiesIn(CHOOSE rp \in kept : PairIds(rp) = e[1], record_pairs)]

\* A score that drops no pair, whatever the threshold.
scoreAll(pairs, clf, thr) == scoreDuplicates(pairs, clf, 0)

\* IntegralMatching.score(pairs, threshold), lines 107-113: the threshold is
\* handed on to core.scoreDuplicates.
score(pairs, clf, thr) == scoreDuplicates(pairs, clf, thr)

\* The default of score's threshold, line 88: 0.0.
DefaultThreshold == CHOOSE s \in Scores : \A t \in Scores : s <= t

\* The ids of a set in ascending order.
RECURSIVE SortedSeq(_)
SortedSeq(S) ==
    IF S = {} THEN <<>>
    ELSE LET m == CHOOSE x \in S : \A y \in S : x <= y
         IN  <<m>> \o SortedSeq(S \ {m})

\* The score of the unordered pair {a, b} in a scored array; -1 when the
\* pair was never scored, which no threshold accepts.
PairScore(matches, a, b) ==
    LET hits == {e \in BagToSet(matches) : e[1] \in {<<a, b>>, <<b, a>>}}
    IN  IF hits = {} THEN -1 ELSE (CHOOSE e \in hits : TRUE)[2]

\* Cophenetic similarity of a group: its minimum pairwise score.
Cophenetic(matches, G) ==
    LET ss == {PairScore(matches, a, b) : <<a, b>> \in {x \in G \X G : x[1] < x[2]}}
    IN  CHOOSE s \in ss : \A t \in ss : s <= t

\* Every grouping that repeated merging can end in: two groups merge while
\* the cophenetic similarity of their union is at or above the threshold.
RECURSIVE Agglomerate(_, _, _)
Agglomerate(matches, thr, P) ==
    LET mergeable == {GH \in P \X P : /\ GH[1] # GH[2]
                                       /\ Cophenetic(matches, GH[1] \cup GH[2]) >= thr}
    IN  IF mergeable = {} THEN {P}
        ELSE UNION {Agglomerate(matches, thr, (P \ {GH[1], GH[2]}) \cup {GH[1] \cup GH[2]})
                    : GH \in mergeable}

\* A cluster tuple (record_ids, scores): the members in ascending order, each
\* with its minimum score to the other members.
ClusterOf(matches, G) ==
    LET ids == SortedSeq(G)
    IN  <<ids, [i \in DOMAIN ids |->
                  LET ss == {PairScore(matches, ids[i], b) : b \in G \ {ids[i]}}
                  IN  CHOOSE s \in ss : \A t \in ss : s <= t]>>

\* A set of clusters as the sequence the generator yields (by first member).
RECURSIVE ClusterSeq(_)
ClusterSeq(Cs) ==
    IF Cs = {} THEN <<>>
    ELSE LET c == CHOOSE x \in Cs : \A y \in Cs : x[1][1] <= y[1][1]
         IN  <<c>> \o ClusterSeq(Cs \ {c})

\* clustering.cluster(matches, threshold): the cluster sequences it may yield;
\* only groups of two or more records are clusters.
cluster(matches, thr) ==
    LET ids == UNION {{e[1][1], e[1][2]} : e \in BagToSet(matches)}
    IN  {ClusterSeq({ClusterOf(matches, G) : G \in {H \in P : Cardinality(H) > 1}})
         : P \in Agglomerate(matches, thr, {{i} : i \in ids})}

(***************************************************************************)
(* DedupeMatching.partition                                                *)
(***************************************************************************)

\* singletons never reduced by the clusters' members.
SingletonsAll(d, cs) == DOMAIN d

\* singletons = set(data.keys()), less the members of every cluster yielded.
Singletons(d, cs) == DOMAIN d \ UNION {Range(c[1]) : c \in Range(cs)}

\* The clusters as given, and no singleton.
add_no_singletons(d, cs) == cs

\* _add_singletons: the clusters as given, then ((singleton,), (1.0,)) for
\* every id left in singletons.
add_singletons(d, cs) ==
    LET left == SortedSeq(Singletons(d, cs))
    IN  cs \o [i \in DOMAIN left |-> <<<<left[i]>>, <<ScoreOne>>>>]

\* Lines 171-172: pairs = self.pairs(data); pair_scores = self.score(list(pairs)).
\* list() runs the generator to its end, so the temporary directory is gone
\* again; score is called with its default threshold 0.0.  The scored array
\* is backed by a file (numpy.memmap) or held in memory.
PartitionScore ==
    /\ CallEnded
    /\ op' = "partition"
    /\ pc' = "scored"
    /\ gen' = "exhausted"
    /\ cursor' = EmptyBag
    /\ LET idx == indexAll(indices, predicates, data)
       IN  /\ indices' = ResetAfterInsert(idx)
           /\ emitted' = Drain(SelectDistinct(DedupeJoin(IndexedBlocker(predicates, data, idx))),
                               data, data)
    /\ pair_scores' = score(emitted', classifier, DefaultThreshold)
    /\ mmap_file' \in BOOLEAN
    /\ clusters' = <<>>
    /\ UNCHANGED <<matcherVars, trainVars, loadVars, threshold, temp_dir, data, blocking_map, linkVars, gazVars>>

\* Scoring raises (a worker fails): the scorer's storage is scoped to its own
\* call and partition is left before it holds any array.
PartitionScoreRaises ==
    /\ CallEnded
    /\ op' = "partition"
    /\ pc' = "raised"
    /\ gen' = "exhausted"
    /\ cursor' = EmptyBag
    /\ LET idx == indexAll(indices, predicates, data)
       IN  /\ indices' = ResetAfterInsert(idx)
           /\ emitted' = Drain(SelectDistinct(DedupeJoin(IndexedBlocker(predicates, data, idx))),
                               data, data)
    /\ pair_scores' = EmptyBag
    /\ mmap_file' = FALSE
    /\ clusters' = <<>>
    /\ UNCHANGED <<matcherVars, trainVars, loadVars, threshold, temp_dir, data, blocking_map, linkVars, gazVars>>

\* Lines 173-175: clusters = list(self._add_singletons(data, self.cluster(...))).
PartitionCluster ==
    /\ op = "partition"
    /\ pc = "scored"
    /\ \E cs \in cluster(pair_scores, threshold) :
          clusters' = add_singletons(data, cs)
    /\ pc' = "clustered"
    /\ UNCHANGED <<matcherVars, trainVars, loadVars, blockerVars, op, threshold, pairsVars, data, blocking_map, scoreVars, linkVars, gazVars>>

\* Clustering raises: nothing between line 173 and line 177 catches it.
PartitionClusterRaises ==
    /\ op = "partition"
    /\ pc = "scored"
    /\ pc' = "raised"
    /\ UNCHANGED <<matcherVars, trainVars, loadVars, blockerVars, op, threshold, pairsVars, dedupeVars, scoreVars, linkVars, gazVars>>

\* Lines 177-184: the file behind a memmap is removed (an in-memory array has
\* no filename: AttributeError, passed); the clusters are returned.
PartitionReturn ==
    /\ op = "partition"
    /\ pc = "clustered"
    /\ pc' = "returned"
    /\ mmap_file' = FALSE
    /\ UNCHANGED <<matcherVars, trainVars, loadVars, blockerVars, op, threshold, pairsVars, dedupeVars, pair_scores, linkVars, gazVars>>

(***************************************************************************)
(* RecordLinkMatching.pairs                                                *)
(***************************************************************************)

\* The join without its USING (block_key): every left posting is joined to
\* every right posting.
LinkJoinCross(map_a, map_b) ==
    {<<pq[1].block_key, pq[1].record_id, pq[2].record_id>> : pq \in map_a \X map_b}

\* The rows of
\*   FROM blocking_map_a a INNER JOIN blocking_map_b b USING (block_key)
LinkJoin(map_a, map_b) ==
    {<<pq[1].block_key, pq[1].record_id, pq[2].record_id>> :
        pq \in {x \in map_a \X map_b : x[1].block_key = x[2].block_key}}

\* pairs(data_1, data_2): calling a generator function runs none of its body.
LinkPairsCall ==
    /\ CallEnded
    /\ op' = "pairs"
    /\ pc' = "returned"
    /\ gen' = "created"
    /\ emitted' = EmptyBag
    /\ cursor' = EmptyBag
    /\ UNCHANGED <<matcherVars, trainVars, loadVars, blockerVars, threshold, temp_dir, dedupeVars, scoreVars, linkVars, gazVars>>

\* The generator body from a fetch on (lines 386-395).
LinkPairsFetch(cur, map_a, map_b) ==
    IF cur = EmptyBag
    THEN /\ gen' = "exhausted"
         /\ temp_dir' = FALSE
         /\ blocking_map_a' = {}
         /\ blocking_map_b' = {}
         /\ cursor' = EmptyBag
         /\ emitted' = emitted
    ELSE \E row \in BagToSet(cur) :
            /\ gen' = "suspended"
            /\ temp_dir' = TRUE
            /\ blocking_map_a' = map_a
            /\ blocking_map_b' = map_b
            /\ cursor' = cur (-) One(row)
            /\ emitted' = emitted (+) One(RecordPair(row, data_1, data_2))

\* First next(): lines 347-384, then the first fetch.
LinkPairsStart ==
    /\ op = "pairs"
    /\ gen = "created"
    /\ LET idx == indexAll(indices, predicates, data_2)
           map_a == IndexedBlocker(predicates, data_1, idx)
           map_b == IndexedBlocker(predicates, data_2, idx)
       IN  /\ indices' = ResetAfterInsert(idx)
           /\ LinkPairsFetch(SelectDistinct(LinkJoin(map_a, map_b)), map_a, map_b)
    /\ UNCHANGED <<matcherVars, trainVars, loadVars, callVars, dedupeVars, scoreVars,
                   data_1, data_2, constraint, links, gazVars>>

\* A later next().
LinkPairsNext ==
    /\ op = "pairs"
    /\ gen = "suspended"
    /\ LinkPairsFetch(cursor, blocking_map_a, blocking_map_b)
    /\ UNCHANGED <<matcherVars, trainVars, loadVars, blockerVars, callVars, dedupeVars, scoreVars,
                   data_1, data_2, constraint, links, gazVars>>

\* The generator is dropped or closed before its end.
LinkPairsClose ==
    /\ op = "pairs"
    /\ gen \in {"created", "suspended"}
    /\ gen' = "closed"
    /\ temp_dir' = FALSE
    /\ blocking_map_a' = {}
    /\ blocking_map_b' = {}
    /\ cursor' = EmptyBag
    /\ UNCHANGED <<matcherVars, trainVars, loadVars, blockerVars, callVars, dedupeVars, scoreVars, emitted,
                   data_1, data_2, constraint, links, gazVars>>

(***************************************************************************)
(* Linking (dedupe.clustering.greedyMatching, pair_gazette_matching),      *)
(* after their written contracts.                                          *)
(***************************************************************************)

\* The entries of highest score.
Top(es) == {e \in es : \A f \in es : f[2] <= e[2]}

\* The greedy scan over the scored pairs in descending order of score, ties
\* in any order: a pair is accepted when its endpoints are still unmatched.
\* one_side_only: only the left endpoint of an accepted pair is consumed.
RECURSIVE GreedyScan(_, _, _, _, _)
GreedyScan(es, A, B, acc, one_side_only) ==
    LET live == {e \in es : e[1][1] \notin A /\ e[1][2] \notin B}
    IN  IF live = {} THEN {acc}
        ELSE UNION {GreedyScan(live \ {e},
                               A \cup {e[1][1]},
                               IF one_side_only THEN B ELSE B \cup {e[1][2]},
                               Append(acc, e),
                               one_side_only)
                    : e \in Top(live)}

\* clustering.greedyMatching(scores): the link sequences it may yield.  The
\* ids of the two datasets are matched separately: an id consumed on the left
\* stays free on the right.
greedyMatching(scores) == GreedyScan(BagToSet(scores), {}, {}, <<>>, FALSE)

\* clustering.pair_gazette_matching(scores, 1).
pair_gazette_matching(scores) == GreedyScan(BagToSet(scores), {}, {}, <<>>, TRUE)

\* list(pair_scores): the rows of the array, one after the other.
RECURSIVE ArrayRows(_)
ArrayRows(scores) ==
    IF scores = EmptyBag THEN <<>>
    ELSE LET e == CHOOSE x \in BagToSet(scores) :
                    \A y \in BagToSet(scores) :
                        \/ x[1][1] < y[1][1]
                        \/ x[1][1] = y[1][1] /\ x[1][2] <= y[1][2]
         IN  <<e>> \o ArrayRows(scores (-) One(e))

(***************************************************************************)
(* RecordLinkMatching.join                                                 *)
(***************************************************************************)
Constraints == {"one-to-one", "many-to-one", "many-to-many"}

\* The branches of one-to-one and many-to-one exchanged.
JoinLinksSwapped(c, scores) ==
    CASE c = "one-to-one" -> pair_gazette_matching(scores)
      [] c = "many-to-one" -> greedyMatching(scores)
      [] c = "many-to-many" -> {ArrayRows(scores)}
      [] OTHER -> {}

\* Lines 449-454: the links of a constraint.  No branch is taken for any
\* other constraint and links is not bound: line 456 has nothing to return.
JoinLinks(c, scores) ==
    CASE c = "one-to-one" -> greedyMatching(scores)
      [] c = "many-to-one" -> pair_gazette_matching(scores)
      [] c = "many-to-many" -> {ArrayRows(scores)}
      [] OTHER -> {}

\* An assertion that lets every constraint pass.
AssertPasses(c) == TRUE

\* Line 442: assert constraint in {'one-to-one', 'many-to-one', 'many-to-many'}.
AssertConstraint(c) == c \in Constraints

\* Lines 443-444: the message of the AssertionError.
InvalidConstraint == "is an invalid constraint option"

\* Lines 442-444: the assertion on constraint fails, as the first statement
\* of join.
JoinAssertFails ==
    /\ CallEnded
    /\ ~ AssertConstraint(constraint)
    /\ op' = "join"
    /\ pc' = "raised"
    /\ exception' = InvalidConstraint
    /\ UNCHANGED <<matcherVars, trainVars, settings_file, blockerVars, threshold, pairsVars, dedupeVars,
                   scoreVars, linkVars, gazVars>>

\* Lines 446-447: pairs = self.pairs(data_1, data_2);
\* pair_scores = self.score(pairs, threshold).  The scorer runs the generator
\* to its end, so the temporary directory is gone again.
JoinScore ==
    /\ CallEnded
    /\ AssertConstraint(constraint)
    /\ op' = "join"
    /\ pc' = "scored"
    /\ gen' = "exhausted"
    /\ cursor' = EmptyBag
    /\ LET idx == indexAll(indices, predicates, data_2)
       IN  /\ indices' = ResetAfterInsert(idx)
           /\ emitted' = Drain(SelectDistinct(LinkJoin(IndexedBlocker(predicates, data_1, idx),
                                                       IndexedBlocker(predicates, data_2, idx))),
                               data_1, data_2)
    /\ pair_scores' = score(emitted', classifier, threshold)
    /\ mmap_file' \in BOOLEAN
    /\ links' = <<>>
    /\ UNCHANGED <<matcherVars, trainVars, loadVars, threshold, temp_dir, dedupeVars,
                   data_1, data_2, blocking_map_a, blocking_map_b, constraint, gazVars>>

\* Scoring raises: join is left before it holds any array; the generator is
\* closed as the frame that held it is released.
JoinScoreRaises ==
    /\ CallEnded
    /\ AssertConstraint(constraint)
    /\ op' = "join"
    /\ pc' = "raised"
    /\ gen' = "closed"
    /\ cursor' = EmptyBag
    /\ indices' = ResetAfterInsert(indexAll(indices, predicates, data_2))
    /\ emitted' = EmptyBag
    /\ pair_scores' = EmptyBag
    /\ mmap_file' = FALSE
    /\ links' = <<>>
    /\ UNCHANGED <<matcherVars, trainVars, loadVars, threshold, temp_dir, dedupeVars,
                   data_1, data_2, blocking_map_a, blocking_map_b, constraint, gazVars>>

\* Lines 449-456: links = list(links).
JoinLink ==
    /\ op = "join"
    /\ pc = "scored"
    /\ links' \in JoinLinks(constraint, pair_scores)
    /\ pc' = "linked"
    /\ UNCHANGED <<matcherVars, trainVars, loadVars, blockerVars, op, threshold, pairsVars, dedupeVars, scoreVars,
                   data_1, data_2, blocking_map_a, blocking_map_b, constraint, gazVars>>

\* Linking raises: nothing between line 449 and line 458 catches it.
JoinLinkRaises ==
    /\ op = "join"
    /\ pc = "scored"
    /\ pc' = "raised"
    /\ UNCHANGED <<matcherVars, trainVars, loadVars, blockerVars, op, threshold, pairsVars, dedupeVars, scoreVars, linkVars, gazVars>>

\* Lines 458-465: the file behind a memmap is removed; the links are returned.
JoinReturn ==
    /\ op = "join"
    /\ pc = "linked"
    /\ pc' = "returned"
    /\ mmap_file' = FALSE
    /\ UNCHANGED <<matcherVars, trainVars, loadVars, blockerVars, op, threshold, pairsVars, dedupeVars, pair_scores, linkVars, gazVars>>

(***************************************************************************)
(* GazetteerMatching: index, unindex, search                               *)
(***************************************************************************)

\* What the caller holds of the blocks of a generator when it makes another
\* call: the blocks yielded so far while the generator is suspended, nothing
\* of a generator that has ended.
Held(yielded) == IF gen = "suspended" THEN yielded ELSE <<>>

\* Line 561: REPLACE INTO indexed_records under UNIQUE(block_key, record_id).
\* A new row takes the place of the rows it conflicts with, which are the
\* rows of the same block key and the same record id; all others stay.
ReplaceInto(table, rows) ==
    {p \in table : ~ \E q \in rows : q.block_key = p.block_key /\ q.record_id = p.record_id}
        \cup rows

\* indexed_data left as it is.
DictUnchanged(d, e) == d

\* Line 577: self.indexed_data.update(data).
DictUpdate(d, e) ==
    [k \in DOMAIN d \cup DOMAIN e |-> IF k \in DOMAIN e THEN e[k] ELSE d[k]]

\* for k in ids: del d[k].
DictDelete(d, ids) == [k \in DOMAIN d \ ids |-> d[k]]

\* con.commit(): the open transaction ends and what it created stays.
Committed(tt) == IF tt = "uncommitted" THEN "committed" ELSE tt

\* index(data), lines 543-577.  The table is created if it is not there, the
\* postings of data are written with REPLACE, the transaction is committed
\* and indexed_data is updated.
GazIndex(d) ==
    /\ NoCallRunning
    /\ op' = "index"
    /\ pc' = "returned"
    /\ table_exists' = TRUE
    /\ indices' = indexAll(indices, predicates, d)
    /\ indexed_records' = ReplaceInto(indexed_records, IndexedBlocker(predicates, d, indices'))
    /\ in_transaction' = FALSE
    /\ temp_table' = Committed(temp_table)
    /\ indexed_data' = DictUpdate(indexed_data, d)
    /\ results' = <<>>
    /\ blocks' = Held(blocks)
    /\ UNCHANGED <<matcherVars, trainVars, loadVars, threshold, pairsVars, dedupeVars, scoreVars, linkVars,
                   pair_blocks>>

\* A DELETE of one id only, where the code deletes for every key of data.
DeleteFirstRecordId(table, ids) ==
    LET first == CHOOSE k \in ids : \A j \in ids : k <= j
    IN  {p \in table : p.record_id # first}

\* Lines 598-600: DELETE FROM indexed_records WHERE record_id = ?, executed
\* for every key of data.
DeleteRecordIds(table, ids) == {p \in table : p.record_id \notin ids}

\* unindex(data), lines 579-605, for data whose keys are all in indexed_data:
\* the postings of the keys are deleted, the transaction is committed and the
\* keys are deleted from indexed_data.  Only the keys of data are read (the
\* predicates of the model have no index fields): ids stands for data.keys().
GazUnindex(ids) ==
    /\ NoCallRunning
    /\ table_exists
    /\ ids \subseteq DOMAIN indexed_data
    /\ op' = "unindex"
    /\ pc' = "returned"
    /\ indexed_records' = DeleteRecordIds(indexed_records, ids)
    /\ in_transaction' = FALSE
    /\ temp_table' = Committed(temp_table)
    /\ indexed_data' = DictDelete(indexed_data, ids)
    /\ results' = <<>>
    /\ blocks' = Held(blocks)
    /\ UNCHANGED <<matcherVars, trainVars, loadVars, blockerVars, threshold, pairsVars, dedupeVars, scoreVars, linkVars,
                   table_exists, pair_blocks>>

\* unindex(data) raises.  Without the table the DELETE of line 598 fails and
\* nothing has changed.  With a key that indexed_data does not hold, line 605
\* raises KeyError after the DELETE and the commit: the keys that come before
\* it in data are gone from indexed_data, the others are not.
GazUnindexRaises(ids) ==
    /\ NoCallRunning
    /\ op' = "unindex"
    /\ pc' = "raised"
    /\ results' = <<>>
    /\ blocks' = Held(blocks)
    /\ IF ~ table_exists
       THEN UNCHANGED <<indexed_records, in_transaction, temp_table, indexed_data>>
       ELSE /\ ~ (ids \subseteq DOMAIN indexed_data)
            /\ indexed_records' = DeleteRecordIds(indexed_records, ids)
            /\ in_transaction' = FALSE
            /\ temp_table' = Committed(temp_table)
            /\ \E before \in SUBSET (ids \cap DOMAIN indexed_data) :
                  indexed_data' = DictDelete(indexed_data, before)
    /\ UNCHANGED <<matcherVars, trainVars, loadVars, blockerVars, threshold, pairsVars, dedupeVars, scoreVars, linkVars,
                   table_exists, pair_blocks>>

\* Lines 621-625 of blocks: SELECT DISTINCT a.record_id, b.record_id FROM
\* blocking_map a INNER JOIN indexed_records b USING (block_key).
GazJoin(map, table) ==
    {<<x[1].record_id, x[2].record_id>> :
        x \in {y \in map \X table : y[1].block_key = y[2].block_key}}

Reverse(s) == [i \in DOMAIN s |-> s[Len(s) + 1 - i]]

\* Lines 627-635 of blocks: the rows ordered by the query id and grouped by
\* it, one list of record pairs for every query id that has a row.  The
\* SELECT orders by a.record_id only, so the candidates of one query come
\* in an order of the database's choosing: ascending or descending here.
GazBlocks(rows, d1, d2, descending) ==
    LET as == SortedSeq({r[1] : r \in rows})
        bs(a) == LET s == SortedSeq({r[2] : r \in {x \in rows : x[1] = a}})
                 IN  IF descending THEN Reverse(s) ELSE s
    IN  [i \in DOMAIN as |->
            [j \in DOMAIN bs(as[i]) |-> RecordPair(<<as[i], bs(as[i])[j]>>, d1, d2)]]

(***************************************************************************)
(* GazetteerMatching.blocks: a generator, run by its consumer              *)
(***************************************************************************)

\* The rows of the SELECT in an order where a.record_id does not ascend
\* (by the candidate id, then by the query id), grouped as groupby groups
\* rows that are not sorted by the key: here every row a group of its own.
PairBlocksUnordered(rows) ==
    LET keys == SortedSeq({r[2] * (MaxGazId + 1) + r[1] : r \in rows})
    IN  [i \in DOMAIN keys |->
            <<<<keys[i] % (MaxGazId + 1), keys[i] \div (MaxGazId + 1)>>>>]

\* Lines 621-628: the rows of SELECT DISTINCT ... ORDER BY a.record_id,
\* grouped by itertools.groupby on the query id: one group for every query
\* id that has a row, in ascending order of the query ids.  The candidates
\* of one query come in an order of the database's choosing, which nothing
\* stated of blocks depends on: the ascending one here.
PairBlocks(rows) ==
    LET as == SortedSeq({r[1] : r \in rows})
        bs(a) == SortedSeq({r[2] : r \in {x \in rows : x[1] = a}})
    IN  [i \in DOMAIN as |-> [j \in DOMAIN bs(as[i]) |-> <<as[i], bs(as[i])[j]>>]]

\* blocks(data_1): calling a generator function runs none of its body.
BlocksCall ==
    /\ CallEnded
    /\ op' = "blocks"
    /\ pc' = "returned"
    /\ gen' = "created"
    /\ pair_blocks' = <<>>
    /\ blocks' = <<>>
    /\ UNCHANGED <<matcherVars, trainVars, loadVars, blockerVars, threshold, temp_dir, cursor,
                   emitted, dedupeVars, scoreVars, linkVars, indexed_records, table_exists,
                   indexed_data, in_transaction, temp_table, results>>

\* The generator body from the head of the for loop on, lines 630-639, with
\* rem the groups not yet yielded, tx and tt the state of the transaction
\* and of the temporary table.  With a group left, its block is built, every
\* candidate's record being looked up in indexed_data (KeyError for an id
\* that is not a key of it), and yielded.  With none left the cursor is
\* closed and ROLLBACK executed, which ends the transaction and drops what
\* it created, and which fails when no transaction is open.
BlocksFetch(rem, tx, tt) ==
    IF rem = <<>>
    THEN /\ pair_blocks' = <<>>
         /\ blocks' = blocks
         /\ in_transaction' = FALSE
         /\ IF tx
            THEN /\ gen' = "exhausted"
                 /\ temp_table' = IF tt = "uncommitted" THEN "none" ELSE tt
            ELSE /\ gen' = "raised"
                 /\ temp_table' = tt
    ELSE LET group == Head(rem)
         IN  /\ in_transaction' = tx
             /\ temp_table' = tt
             /\ IF \E j \in DOMAIN group : group[j][2] \notin DOMAIN indexed_data
                THEN /\ gen' = "raised"
                     /\ pair_blocks' = <<>>
                     /\ blocks' = blocks
                ELSE /\ gen' = "suspended"
                     /\ pair_blocks' = Tail(rem)
                     /\ blocks' = Append(blocks,
                                     [j \in DOMAIN group |-> RecordPair(group[j], data_1, indexed_data)])

\* First next(), lines 609-628: BEGIN, which fails inside a transaction;
\* CREATE TEMPORARY TABLE blocking_map, which fails when the table exists;
\* the INSERT of the blocker's postings of data_1; the SELECT, which fails
\* without the table indexed_records; then the loop.
BlocksStart ==
    /\ gen = "created"
    /\ IF in_transaction
       THEN /\ gen' = "raised"
            /\ UNCHANGED <<in_transaction, temp_table, pair_blocks, blocks>>
       ELSE IF temp_table # "none"
       THEN /\ gen' = "raised"
            /\ in_transaction' = TRUE
            /\ UNCHANGED <<temp_table, pair_blocks, blocks>>
       ELSE IF ~ table_exists
       THEN /\ gen' = "raised"
            /\ in_transaction' = TRUE
            /\ temp_table' = "uncommitted"
            /\ UNCHANGED <<pair_blocks, blocks>>
       ELSE BlocksFetch(PairBlocks(GazJoin(IndexedBlocker(predicates, data_1, indices),
                                           indexed_records)),
                        TRUE, "uncommitted")
    /\ UNCHANGED <<matcherVars, trainVars, loadVars, blockerVars, op, pc, threshold, temp_dir,
                   cursor, emitted, dedupeVars, scoreVars, linkVars, indexed_records,
                   table_exists, indexed_data, results>>

\* A later next().
BlocksNext ==
    /\ gen = "suspended"
    /\ BlocksFetch(pair_blocks, in_transaction, temp_table)
    /\ UNCHANGED <<matcherVars, trainVars, loadVars, blockerVars, op, pc, threshold, temp_dir,
                   cursor, emitted, dedupeVars, scoreVars, linkVars, indexed_records,
                   table_exists, indexed_data, results>>

\* The consumer drops or closes the generator before its end.  No try or
\* with statement encloses the yield of line 632: GeneratorExit runs no
\* statement of the body, neither pairs.close() nor the ROLLBACK.
BlocksClose ==
    /\ gen \in {"created", "suspended"}
    /\ gen' = "closed"
    /\ pair_blocks' = <<>>
    /\ UNCHANGED <<matcherVars, trainVars, loadVars, blockerVars, op, pc, threshold, temp_dir,
                   cursor, emitted, dedupeVars, scoreVars, linkVars, indexed_records,
                   table_exists, indexed_data, in_transaction, temp_table, results, blocks>>

\* core.scoreGazette: every block becomes the array of ((a, b), score) of
\* its pairs, without the pairs whose score is below the threshold.
scoreGazette(blks, clf, thr) ==
    [i \in DOMAIN blks |->
        SelectSeq([j \in DOMAIN blks[i] |->
                      <<PairIds(blks[i][j]),
                        Probability(clf, blks[i][j][1][2], blks[i][j][2][2])>>],
                  LAMBDA e : e[2] >= thr)]

\* A scored block by descending score, equal scores in the order they have.
RECURSIVE SortByScore(_)
SortByScore(s) ==
    IF s = <<>> THEN <<>>
    ELSE LET m == CHOOSE i \in DOMAIN s :
                     /\ \A j \in DOMAIN s : s[j][2] <= s[i][2]
                     /\ \A j \in 1..(i - 1) : s[j][2] < s[i][2]
         IN  <<s[m]>> \o SortByScore(SubSeq(s, 1, m - 1) \o SubSeq(s, m + 1, Len(s)))

\* clustering.gazetteMatching: every scored block that is not empty, sorted
\* by descending score and cut to n_matches (0 stands for None: no cut).
gazetteMatching(scored_blocks, n) ==
    LET kept == SelectSeq(scored_blocks, LAMBDA b : Len(b) > 0)
        cut(b) == IF n = 0 \/ Len(b) <= n THEN b ELSE SubSeq(b, 1, n)
    IN  [i \in DOMAIN kept |-> cut(SortByScore(kept[i]))]

\* Line 733 of _format_search_results: seen = set().  No statement of the
\* method adds to it.
Seen(res) == {}

\* _format_search_results, lines 729-743: for every result (a, ((b, score),
\* ...)), a being the query id of the result's pairs; then (k, ()) for every
\* k of search_d.keys() - seen.
format_search_results(search_d, res) ==
    LET rest == SortedSeq(DOMAIN search_d \ Seen(res))
    IN  [i \in DOMAIN res |->
            <<res[i][Len(res[i])][1][1],
              [j \in DOMAIN res[i] |-> <<res[i][j][1][2], res[i][j][2]>>]>>]
        \o [i \in DOMAIN rest |-> <<rest[i], <<>>>>]

\* What search returns when no statement of it raises.
SearchResults(messy_data, thr, n, descending) ==
    format_search_results(messy_data,
        gazetteMatching(
            scoreGazette(
                GazBlocks(GazJoin(IndexedBlocker(predicates, messy_data, indices), indexed_records),
                          messy_data, indexed_data, descending),
                classifier, thr),
            n))

\* search(messy_data, threshold, n_matches), lines 718-727, with blocks run
\* to its end by list(results), lines 607-639.  BEGIN fails inside a
\* transaction; CREATE TEMPORARY TABLE fails when blocking_map exists; the
\* SELECT fails without the table indexed_records; line 633 raises KeyError
\* for a candidate that indexed_data does not hold.  Only a run to the end
\* reaches the ROLLBACK of line 639.
GazSearch(thr, n, descending) ==
    /\ CallEnded
    /\ op' = "search"
    /\ IF in_transaction
       THEN /\ pc' = "raised"
            /\ results' = <<>>
            /\ UNCHANGED <<in_transaction, temp_table>>
       ELSE IF temp_table # "none"
       THEN /\ pc' = "raised"
            /\ results' = <<>>
            /\ in_transaction' = TRUE
            /\ UNCHANGED temp_table
       ELSE IF \/ ~ table_exists
               \/ \E r \in GazJoin(IndexedBlocker(predicates, data_1, indices), indexed_records) :
                     r[2] \notin DOMAIN indexed_data
       THEN /\ pc' = "raised"
            /\ results' = <<>>
            /\ in_transaction' = TRUE
            /\ temp_table' = "uncommitted"
       ELSE /\ pc' = "returned"
            /\ results' = SearchResults(data_1, thr, n, descending)
            /\ UNCHANGED <<in_transaction, temp_table>>
    /\ UNCHANGED <<matcherVars, trainVars, loadVars, blockerVars, threshold, pairsVars, dedupeVars, scoreVars, linkVars,
                   indexed_records, table_exists, indexed_data, pair_blocks, blocks>>

(***************************************************************************)
(* StaticMatching.__init__ and ActiveMatching.write_settings               *)
(***************************************************************************)

\* The kinds of object of a settings file.
Kinds == {"data_model", "classifier", "predicates"}

\* The exceptions that unpickling an object raises: KeyError and
\* AttributeError for an object of another version of the library, any
\* other for damaged bytes.
PickleErrors == {"KeyError", "AttributeError", "UnpicklingError"}

\* An object that can be pickled: what kind of object it is, and its value.
\* Where settings are written and loaded, the attributes data_model,
\* classifier and predicates of the matcher hold such objects.
Obj(k, v) == [kind |-> k, value |-> v]

\* An attribute that was never assigned.
Unset == Obj("unset", "")

\* The data model of the variable definition: its fields.
DataModelFields == <<"name", "city">>

\* The objects of a settings file: one of every kind, and for every
\* exception a pickle that raises it when it is loaded.
PickledObjects ==
    {Obj("data_model", DataModelFields),
     Obj("classifier", [name |-> 1, city |-> 1]),
     Obj("predicates", <<"name">>)}
        \cup {Obj(e, "") : e \in PickleErrors}

SettingsFiles == UNION {[1..n -> PickledObjects] : n \in 0..MaxFileLen}

\* The kinds of the objects of a file, in the order of the file.
KindsOf(file) == [i \in DOMAIN file |-> file[i].kind]

\* pickle.load for the i-th time on a file: the object, the exception of
\* the object, or EOFError past the end of the file.
PickleLoad(file, i) ==
    IF i > Len(file) THEN [raises |-> "EOFError"]
    ELSE IF file[i].kind \in PickleErrors THEN [raises |-> file[i].kind]
    ELSE [raises |-> "none", object |-> file[i]]

\* Lines 773-781: the message of the SettingsFileLoadingException for an
\* exception raised inside the try.
NotCompatible == "This settings file is not compatible"
GoneWrong == "Something has gone wrong with loading the settings file"
LoadingMessage(raised) ==
    IF raised \in {"KeyError", "AttributeError"} THEN NotCompatible ELSE GoneWrong

\* StaticMatching(settings_file), lines 769-785, a new matcher: three
\* pickle.load in a row into data_model, classifier and predicates; an
\* exception of one of them ends the constructor with a
\* SettingsFileLoadingException; nothing looks at what was loaded.
\* blocking.Blocker(self.predicates) of line 785 is outside the try; given
\* an object that is no predicate list it may raise an exception of its own
\* ("Blocker") or not.  The file is one that was supplied, or the one
\* write_settings has written.
LoadSettings ==
    /\ \/ op = "none" /\ data_model = Unset
       \/ op = "write_settings"
    /\ op' = "load"
    /\ LET l1 == PickleLoad(settings_file, 1)
           l2 == PickleLoad(settings_file, 2)
           l3 == PickleLoad(settings_file, 3)
       IN  IF l1.raises # "none"
           THEN /\ pc' = "raised"
                /\ exception' = LoadingMessage(l1.raises)
                /\ data_model' = Unset
                /\ classifier' = Unset
                /\ predicates' = Unset
           ELSE IF l2.raises # "none"
           THEN /\ pc' = "raised"
                /\ exception' = LoadingMessage(l2.raises)
                /\ data_model' = l1.object
                /\ classifier' = Unset
                /\ predicates' = Unset
           ELSE IF l3.raises # "none"
           THEN /\ pc' = "raised"
                /\ exception' = LoadingMessage(l3.raises)
                /\ data_model' = l1.object
                /\ classifier' = l2.object
                /\ predicates' = Unset
           ELSE /\ data_model' = l1.object
                /\ classifier' = l2.object
                /\ predicates' = l3.object
                /\ \/ pc' = "returned" /\ exception' = "none"
                   \/ l3.object.kind # "predicates" /\ pc' = "raised" /\ exception' = "Blocker"
    /\ UNCHANGED <<settings_file, trainVars, blockerVars, threshold, pairsVars, dedupeVars, scoreVars, linkVars, gazVars>>

\* The three dumps in another order: the classifier first.
DumpedClassifierFirst(file, dm, clf, preds) == file \o <<clf, dm, preds>>

\* Lines 924-926: pickle.dump of self.data_model, of self.classifier and of
\* self.predicates, in this order, each appended to the file.
Dumped(file, dm, clf, preds) == file \o <<dm, clf, preds>>

\* write_settings(file_obj), lines 909-926, on an active matcher that was
\* trained (train has set self.predicates).
WriteSettings ==
    /\ op = "none"
    /\ data_model # Unset
    /\ predicates # Unset
    /\ op' = "write_settings"
    /\ pc' = "returned"
    /\ settings_file' = Dumped(settings_file, data_model, classifier, predicates)
    /\ UNCHANGED <<matcherVars, trainVars, blockerVars, exception, threshold, pairsVars, dedupeVars, scoreVars,
                   linkVars, gazVars>>

\* write_settings on an active matcher that was never trained: the data
\* model and the class's classifier are dumped, then self.predicates of
\* line 926 raises AttributeError.
WriteSettingsUntrained ==
    /\ op = "none"
    /\ data_model # Unset
    /\ predicates = Unset
    /\ op' = "write_settings"
    /\ pc' = "raised"
    /\ settings_file' = settings_file \o <<data_model, classifier>>
    /\ UNCHANGED <<matcherVars, trainVars, blockerVars, exception, threshold, pairsVars, dedupeVars, scoreVars,
                   linkVars, gazVars>>

(***************************************************************************)
(* ActiveMatching: prepare_training, mark_pairs, uncertain_pairs, train    *)
(* (class Dedupe).  dedupe.datamodel, dedupe.labeler and rlr are not part  *)
(* of the sources at hand; check, the learner and Fit follow the written   *)
(* specification of their contracts.                                       *)
(***************************************************************************)

\* The active matcher instances of the process.
Matchers == {1, 2}

\* Records of training: two that have every field of the data model, and
\* one that lacks the field city.
Complete == [name |-> "Pat", city |-> "x"]
Other == [name |-> "Sam", city |-> "x"]
Lacking == [name |-> "Pat"]

\* The record pairs a user labels.
TrainPairs == {<<Complete, Other>>, <<Complete, Lacking>>}

\* The datasets of prepare_training: the records in the order of the
\* dictionary, none at all included.
TrainDatasets == UNION {[1..n -> {Complete, Lacking}] : n \in 0..MaxTrainData}

SeqsUpTo(S, n) == UNION {[1..k -> S] : k \in 0..n}

\* TrainingData: {'match': [...], 'distinct': [...]}.
NoPairs == [match |-> <<>>, distinct |-> <<>>]
Labelled(lp) == Len(lp.match) + Len(lp.distinct)
LabelledPairs ==
    {lp \in [match : SeqsUpTo(TrainPairs, MaxLabelled),
             distinct : SeqsUpTo(TrainPairs, MaxLabelled)] : Labelled(lp) <= MaxLabelled}

\* The training files of prepare_training: none, or a file of at most one
\* pair labelled a match.
TrainingFiles ==
    {[given |-> FALSE, pairs |-> NoPairs]}
    \cup {[given |-> TRUE, pairs |-> lp] :
             lp \in {q \in LabelledPairs : Len(q.match) <= 1 /\ q.distinct = <<>>}}

\* data_model.check(record): the record has every field of the data model.
check(r) == \A i \in DOMAIN DataModelFields : DataModelFields[i] \in DOMAIN r

\* _checkRecordPair, lines 1017-1030, on a pair of two dictionaries: both
\* records are checked.
checkRecordPair(pair) == check(pair[1]) /\ check(pair[2])

\* _checkTrainingPairs, lines 997-1015, on a dictionary with both keys: the
\* first pair of 'match' and the first pair of 'distinct' are checked.
checkTrainingPairs(lp) ==
    /\ (lp.match # <<>>) => checkRecordPair(lp.match[1])
    /\ (lp.distinct # <<>>) => checkRecordPair(lp.distinct[1])

\* Dedupe._checkData, lines 1132-1137: the error it raises, or "none".  The
\* first record of the dictionary is checked.
checkData(d) ==
    IF Len(d) = 0 THEN "EmptyInput"
    ELSE IF ~ check(d[1]) THEN "SchemaError"
    ELSE "none"

\* The pairs of 'match' only, with label 1.
flatten_matches(tp) == [i \in 1..Len(tp.match) |-> <<tp.match[i], 1>>]

\* flatten_training, lines 1303-1314: the pairs of 'match' with label 1, then
\* the pairs of 'distinct' with label 0.
flatten_training(tp) ==
    [i \in 1..Labelled(tp) |->
        IF i <= Len(tp.match) THEN <<tp.match[i], 1>>
        ELSE <<tp.distinct[i - Len(tp.match)], 0>>]

\* Lines 990-991: both lists are extended.
Extend(tp, lp) ==
    [match |-> tp.match \o lp.match, distinct |-> tp.distinct \o lp.distinct]

\* self.active_learner: None (line 826), or a learner with its data, the labelled
\* examples it has been given by mark and the candidate pairs of its sample
\* that pop has not yet handed out.
NoLearner == [exists |-> FALSE, data |-> <<>>, marked |-> <<>>, pool |-> {}]
NewLearner(d) ==
    [exists |-> TRUE, data |-> d, marked |-> <<>>,
     pool |-> {pr \in (DOMAIN d) \X (DOMAIN d) : pr[1] < pr[2]}]
LearnerMark(al, examples) == [al EXCEPT !.marked = @ \o examples]

\* A classifier object that was never fitted.
Unfitted == [fitted |-> FALSE, name |-> 0, city |-> 0]

\* A field has the same value in both records of a pair.
SameField(pair, f) ==
    /\ f \in DOMAIN pair[1]
    /\ f \in DOMAIN pair[2]
    /\ pair[1][f] = pair[2][f]

\* classifier.fit(distances, y): a field gets weight when it is equal in a
\* pair labelled 1 and in no pair labelled 0.
FieldWeight(examples, f) ==
    IF /\ \E i \in DOMAIN examples : examples[i][2] = 1 /\ SameField(examples[i][1], f)
       /\ ~ \E i \in DOMAIN examples : examples[i][2] = 0 /\ SameField(examples[i][1], f)
    THEN 1 ELSE 0
Fit(examples) ==
    [fitted |-> TRUE, name |-> FieldWeight(examples, "name"), city |-> FieldWeight(examples, "city")]

\* active_learner.learn_predicates: the predicates, in a fixed order, each
\* of which covers a pair labelled 1 that none before it covers.
Covers(p, pair) == check(pair[1]) /\ check(pair[2]) /\ Apply(p, pair[1]) \cap Apply(p, pair[2]) # {}
learn_predicates(al) ==
    LET ms == {al.marked[i][1] : i \in {j \in DOMAIN al.marked : al.marked[j][2] = 1}}
        byName == {pr \in ms : Covers("name", pr)}
        byCity == {pr \in ms : Covers("city", pr)}
    IN  (IF byName # {} THEN <<"name">> ELSE <<>>)
        \o (IF byCity \ byName # {} THEN <<"city">> ELSE <<>>)

\* A classifier of every instance, which the code does not have.
InstanceClassifier(m, own) == m

\* Line 801: classifier is an attribute of the class ActiveMatching (object
\* 0), which self.classifier is for every instance that has not been given
\* an attribute of its own (object m).
DefaultClassifier(m, own) == IF own THEN m ELSE 0

\* The assertion passes without a learner.
AssertAnyLearner(al) == TRUE

\* Lines 881 and 963: assert self.active_learner.
AssertLearner(al) == al.exists

\* The message of the AssertionError of lines 881 and 963.
NoSample == "Please initialize with the sample method"

\* mark_pairs(labeled_pairs), lines 988-995, as a function of the state it
\* reads: the outcomes it can have.  The lists are extended before the
\* learner is given the new examples, and the learner's mark may raise.
MarkPairsOutcomes(tp, al, lp) ==
    IF ~ checkTrainingPairs(lp)
    THEN {[raises |-> "SchemaError", tp |-> tp, al |-> al]}
    ELSE IF ~ al.exists
    THEN {[raises |-> "none", tp |-> Extend(tp, lp), al |-> al]}
    ELSE {[raises |-> "none", tp |-> Extend(tp, lp), al |-> LearnerMark(al, flatten_training(lp))]}
         \cup (IF Labelled(lp) = 0 THEN {}
               ELSE {[raises |-> "Learner", tp |-> Extend(tp, lp), al |-> al]})

\* Dedupe._sample(data), lines 1114-1130: the outcomes it can have.  The new
\* learner is assigned before it is given the examples collected so far.
SampleOutcomes(tp, al, d) ==
    IF checkData(d) # "none"
    THEN {[raises |-> checkData(d), tp |-> tp, al |-> al]}
    ELSE {[raises |-> "none", tp |-> tp, al |-> LearnerMark(NewLearner(d), flatten_training(tp))]}
         \cup (IF Labelled(tp) = 0 THEN {}
               ELSE {[raises |-> "Learner", tp |-> tp, al |-> NewLearner(d)]})

\* The call ends with the outcome o on matcher m.
EndTrainingCall(m, o) ==
    /\ matcher' = m
    /\ pc' = IF o.raises = "none" THEN "returned" ELSE "raised"
    /\ exception' = o.raises
    /\ training_pairs' = [training_pairs EXCEPT ![m] = o.tp]
    /\ active_learner' = [active_learner EXCEPT ![m] = o.al]

\* mark_pairs(labeled_pairs) on matcher m.
MarkPairs(m) ==
    /\ CallEnded
    /\ Labelled(training_pairs[m]) + Labelled(labeled_pairs) <= MaxLabelled
    /\ op' = "mark_pairs"
    /\ \E o \in MarkPairsOutcomes(training_pairs[m], active_learner[m], labeled_pairs) :
          EndTrainingCall(m, o)
    /\ UNCHANGED <<matcherVars, settings_file, blockerVars, clf_obj, clf_state, learned, trainArgs,
                   threshold, pairsVars, dedupeVars, scoreVars, linkVars, gazVars>>

\* prepare_training(data, training_file) on matcher m, lines 1088-1090:
\* _read_training marks the pairs of the file (lines 846-848), if one is
\* given, then _sample runs.
PrepareTraining(m) ==
    /\ CallEnded
    /\ training_file.given =>
          Labelled(training_pairs[m]) + Labelled(training_file.pairs) <= MaxLabelled
    /\ op' = "prepare_training"
    /\ \E r \in (IF training_file.given
                 THEN MarkPairsOutcomes(training_pairs[m], active_learner[m], training_file.pairs)
                 ELSE {[raises |-> "none", tp |-> training_pairs[m], al |-> active_learner[m]]}) :
          IF r.raises # "none"
          THEN EndTrainingCall(m, r)
          ELSE \E o \in SampleOutcomes(r.tp, r.al, data) : EndTrainingCall(m, o)
    /\ UNCHANGED <<matcherVars, settings_file, blockerVars, clf_obj, clf_state, learned, trainArgs,
                   threshold, pairsVars, dedupeVars, scoreVars, linkVars, gazVars>>

\* uncertain_pairs() on matcher m, lines 963-964: the assertion, then the
\* learner's pop, which hands out a candidate pair of the sample and fails
\* when none is left.
UncertainPairs(m) ==
    /\ CallEnded
    /\ op' = "uncertain_pairs"
    /\ matcher' = m
    /\ IF ~ AssertLearner(active_learner[m])
       THEN /\ pc' = "raised"
            /\ exception' = NoSample
            /\ UNCHANGED active_learner
       ELSE IF active_learner[m].pool = {}
       THEN /\ pc' = "raised"
            /\ exception' = "Learner"
            /\ UNCHANGED active_learner
       ELSE /\ pc' = "returned"
            /\ exception' = "none"
            /\ \E pr \in active_learner[m].pool :
                  active_learner' = [active_learner EXCEPT ![m].pool = @ \ {pr}]
    /\ UNCHANGED <<matcherVars, settings_file, blockerVars, training_pairs, clf_obj, clf_state,
                   learned, trainArgs, threshold, pairsVars, dedupeVars, scoreVars, linkVars,
                   gazVars>>

\* train() on matcher m, lines 881-889: the assertion; the classifier object
\* of the matcher is fitted to the flattened training pairs, whose distances
\* need every field of every record; the predicates are learned and a new
\* blocker is made of them.  Without a learner line 886 cannot call
\* learn_predicates, after the fit.
Train(m) ==
    /\ CallEnded
    /\ op' = "train"
    /\ matcher' = m
    /\ LET examples == flatten_training(training_pairs[m])
       IN  IF ~ AssertLearner(active_learner[m])
           THEN /\ pc' = "raised"
                /\ exception' = NoSample
                /\ UNCHANGED <<clf_state, learned, indices>>
           ELSE IF \E i \in DOMAIN examples : ~ checkRecordPair(examples[i][1])
           THEN /\ pc' = "raised"
                /\ exception' = "KeyError"
                /\ UNCHANGED <<clf_state, learned, indices>>
           ELSE IF ~ active_learner[m].exists
           THEN /\ pc' = "raised"
                /\ exception' = "AttributeError"
                /\ clf_state' = [clf_state EXCEPT ![clf_obj[m]] = Fit(examples)]
                /\ UNCHANGED <<learned, indices>>
           ELSE /\ pc' = "returned"
                /\ exception' = "none"
                /\ clf_state' = [clf_state EXCEPT ![clf_obj[m]] = Fit(examples)]
                /\ learned' = [learned EXCEPT
                                  ![m] = Obj("predicates", learn_predicates(active_learner[m]))]
                /\ indices' = resetIndices(indices)
    /\ UNCHANGED <<matcherVars, settings_file, training_pairs, active_learner, clf_obj, trainArgs,
                   threshold, pairsVars, dedupeVars, scoreVars, linkVars, gazVars>>

\* No active matcher.
NoTraining ==
    /\ matcher = 0
    /\ training_pairs = <<>>
    /\ active_learner = <<>>
    /\ clf_obj = <<>>
    /\ clf_state = <<>>
    /\ learned = <<>>
    /\ labeled_pairs = NoPairs
    /\ training_file = [given |-> FALSE, pairs |-> NoPairs]

\* Active matchers as constructed, lines 818-826: no training pairs and no
\* learner; own[m] says that matcher m was given a classifier of its own.
NewMatchers(own) ==
    /\ matcher = 0
    /\ training_pairs = [m \in Matchers |-> NoPairs]
    /\ active_learner = [m \in Matchers |-> NoLearner]
    /\ clf_obj = [m \in Matchers |-> DefaultClassifier(m, own[m])]
    /\ clf_state = [o \in {0} \cup Matchers |-> Unfitted]
    /\ learned = [m \in Matchers |-> Unset]

\* A matcher as trained or loaded: its predicates and its classifier.
InitMatcher ==
    /\ predicates \in PredicateLists
    /\ classifier \in Classifiers

\* A matcher that was not loaded from a settings file.
NoLoad ==
    /\ data_model = "data_model"
    /\ settings_file = <<>>
    /\ exception = "none"

\* No call made yet.
InitCalls ==
    /\ indices = NoIndices
    /\ op = "none"
    /\ pc = "idle"
    /\ gen = "none"
    /\ temp_dir = FALSE
    /\ cursor = EmptyBag
    /\ emitted = EmptyBag
    /\ pair_scores = EmptyBag
    /\ mmap_file = FALSE

\* A matcher that is not used for record linkage.
NoLink ==
    /\ data_1 = <<>>
    /\ data_2 = <<>>
    /\ blocking_map_a = {}
    /\ blocking_map_b = {}
    /\ constraint = "one-to-one"
    /\ links = <<>>

\* A matcher that is no gazetteer; a gazetteer as constructed (lines 526-534).
NoGazetteer ==
    /\ indexed_records = {}
    /\ table_exists = FALSE
    /\ indexed_data = <<>>
    /\ in_transaction = FALSE
    /\ temp_table = "none"
    /\ results = <<>>
    /\ pair_blocks = <<>>
    /\ blocks = <<>>

\* A matcher that is not used for deduplication.
NoDedupe ==
    /\ data = <<>>
    /\ blocking_map = {}
    /\ clusters = <<>>

(***************************************************************************)
(* SpecDedupe: a DedupeMatching matcher whose caller iterates pairs(data). *)
(* The dataset is the caller's; every call starts from it afresh, so one   *)
(* dataset per behaviour reaches every state a sequence of calls can.      *)
(***************************************************************************)
InitDedupe ==
    /\ predicates \in PredicateLists
    /\ classifier = [name |-> 1, city |-> 1]
    /\ InitCalls
    /\ NoLoad
    /\ threshold = 0
    /\ data \in Datasets
    /\ blocking_map = {}
    /\ clusters = <<>>
    /\ NoLink
    /\ NoGazetteer
    /\ NoTraining

NextDedupe ==
    \/ DedupePairsCall
    \/ DedupePairsStart
    \/ DedupePairsNext
    \/ DedupePairsClose

SpecDedupe == InitDedupe /\ [][NextDedupe]_vars

\* The ids of the pairs yielded so far.
EmittedIds == {PairIds(rp) : rp \in BagToSet(emitted)}

\* The pairs (a, b), a < b, of a dataset whose records share a block key.
SharedKeyPairs(preds, d) ==
    {ab \in (DOMAIN d) \X (DOMAIN d) :
        /\ ab[1] < ab[2]
        /\ BlockKeys(preds, d[ab[1]]) \cap BlockKeys(preds, d[ab[2]]) # {}}

\* C1: DedupeMatching.pairs yields every unordered pair of record ids at most
\* once, always with the first id below the second (so never a record with
\* itself), however many block keys or predicates connect the two records.
C1_NoDuplicatePair ==
    op = "pairs" =>
        \A rp \in BagToSet(emitted) :
            /\ CopiesIn(rp, emitted) = 1
            /\ rp[1][1] < rp[2][1]
            /\ \A rq \in BagToSet(emitted) :
                  {rp[1][1], rp[2][1]} = {rq[1][1], rq[2][1]} => rp = rq

\* A run of pairs has ended having yielded a pair whose records share two or
\* more block keys.
C1_Witness ==
    /\ op = "pairs"
    /\ gen = "exhausted"
    /\ \E rp \in BagToSet(emitted) :
          Cardinality(BlockKeys(predicates, rp[1][2])
                      \cap BlockKeys(predicates, rp[2][2])) >= 2

\* C2: DedupeMatching.pairs is complete and exact: it never yields a pair
\* whose records share no block key, and once it has run to its end the pairs
\* yielded are exactly the pairs (a, b), a < b, for which the blocker produced
\* a common block key.
C2_PairsComplete ==
    op = "pairs" =>
        /\ EmittedIds \subseteq SharedKeyPairs(predicates, data)
        /\ \A rp \in BagToSet(emitted) :
              /\ rp[1] = <<rp[1][1], data[rp[1][1]]>>
              /\ rp[2] = <<rp[2][1], data[rp[2][1]]>>
        /\ gen = "exhausted" => EmittedIds = SharedKeyPairs(predicates, data)

\* A run of pairs has ended with some pairs yielded and some pair of records
\* of the dataset, sharing no key, left out.
C2_Witness ==
    /\ op = "pairs"
    /\ gen = "exhausted"
    /\ emitted # EmptyBag
    /\ \E a, b \in DOMAIN data : a < b /\ <<a, b>> \notin EmittedIds

(***************************************************************************)
(* SpecPartition: a DedupeMatching matcher whose caller calls              *)
(* partition(data, threshold).                                             *)
(***************************************************************************)
PartitionPredicateLists ==
    {<<"name">>, <<"city">>, <<"name", "city", "name_city">>}

InitPartition ==
    /\ predicates \in PartitionPredicateLists
    /\ classifier \in Classifiers
    /\ InitCalls
    /\ NoLoad
    /\ threshold \in Scores
    /\ data \in Datasets
    /\ blocking_map = {}
    /\ clusters = <<>>
    /\ NoLink
    /\ NoGazetteer
    /\ NoTraining

NextPartition ==
    \/ PartitionScore
    \/ PartitionScoreRaises
    \/ PartitionCluster
    \/ PartitionClusterRaises
    \/ PartitionReturn

SpecPartition == InitPartition /\ [][NextPartition]_vars

\* The positions in a cluster sequence of the clusters that hold an id.
ClustersOf(cs, id) == {i \in DOMAIN cs : id \in Range(cs[i][1])}

\* C4: the clusters returned by partition are a partition of the dataset's
\* record ids: every id of the data is in exactly one cluster (singletons
\* included), once, and no cluster holds an id that is not in the data.
C4_PartitionOfIds ==
    (op = "partition" /\ pc \in {"clustered", "returned"}) =>
        /\ \A id \in DOMAIN data : Cardinality(ClustersOf(clusters, id)) = 1
        /\ \A i \in DOMAIN clusters :
              /\ Range(clusters[i][1]) \subseteq DOMAIN data
              /\ Len(clusters[i][1]) = Cardinality(Range(clusters[i][1]))
              /\ Len(clusters[i][2]) = Len(clusters[i][1])

\* partition has returned a cluster of several records together with a
\* singleton.
C4_Witness ==
    /\ op = "partition"
    /\ pc = "returned"
    /\ \E i, j \in DOMAIN clusters :
          Len(clusters[i][1]) >= 2 /\ Len(clusters[j][1]) = 1

\* C9: when an operation has ended, by returning or by raising, none of the
\* temporary resources it created remains: neither the blocking database
\* directory of pairs nor the file behind the scored pairs of partition.
C9_ResourcesReleased ==
    (op = "partition" /\ pc \in {"returned", "raised"}) =>
        (temp_dir = FALSE /\ mmap_file = FALSE)

(***************************************************************************)
(* SpecLinkPairs: a RecordLinkMatching matcher whose caller iterates       *)
(* pairs(data_1, data_2).                                                  *)
(***************************************************************************)
LinkPredicateLists ==
    {<<"name">>, <<"city">>, <<"name", "city", "name_city">>}

InitLinkPairs ==
    /\ predicates \in LinkPredicateLists
    /\ classifier = [name |-> 1, city |-> 1]
    /\ InitCalls
    /\ NoLoad
    /\ threshold = 0
    /\ NoDedupe
    /\ data_1 \in LinkDatasets
    /\ data_2 \in LinkDatasets
    /\ blocking_map_a = {}
    /\ blocking_map_b = {}
    /\ constraint = "one-to-one"
    /\ links = <<>>
    /\ NoGazetteer
    /\ NoTraining

NextLinkPairs ==
    \/ LinkPairsCall
    \/ LinkPairsStart
    \/ LinkPairsNext
    \/ LinkPairsClose

SpecLinkPairs == InitLinkPairs /\ [][NextLinkPairs]_vars

\* The pairs (a, b) of a left and a right record that share a block key.
SharedKeyLinkPairs(preds, d1, d2) ==
    {ab \in (DOMAIN d1) \X (DOMAIN d2) :
        BlockKeys(preds, d1[ab[1]]) \cap BlockKeys(preds, d2[ab[2]]) # {}}

\* C3: RecordLinkMatching.pairs yields exactly once every (left_id, right_id)
\* whose left record and right record share a block key, and nothing else;
\* the first member of every pair yielded is a record of data_1 and the second
\* a record of data_2, also when an id occurs in both datasets.
C3_LinkPairs ==
    op = "pairs" =>
        /\ \A rp \in BagToSet(emitted) :
              /\ CopiesIn(rp, emitted) = 1
              /\ rp[1][1] \in DOMAIN data_1 /\ rp[1][2] = data_1[rp[1][1]]
              /\ rp[2][1] \in DOMAIN data_2 /\ rp[2][2] = data_2[rp[2][1]]
        /\ EmittedIds \subseteq SharedKeyLinkPairs(predicates, data_1, data_2)
        /\ gen = "exhausted" =>
              EmittedIds = SharedKeyLinkPairs(predicates, data_1, data_2)

\* A run of pairs has ended having yielded a pair of records that share
\* several block keys and a pair of one id on both sides, whose record differs
\* between the two datasets, and having left out some other pair.
C3_Witness ==
    /\ op = "pairs"
    /\ gen = "exhausted"
    /\ \E rp \in BagToSet(emitted) :
          Cardinality(BlockKeys(predicates, rp[1][2])
                      \cap BlockKeys(predicates, rp[2][2])) >= 2
    /\ \E rp \in BagToSet(emitted) :
          rp[1][1] = rp[2][1] /\ rp[1][2] # rp[2][2]
    /\ EmittedIds # (DOMAIN data_1) \X (DOMAIN data_2)

(***************************************************************************)
(* SpecJoin: a RecordLinkMatching matcher whose caller calls               *)
(* join(data_1, data_2, threshold, constraint).                            *)
(***************************************************************************)
InitJoin ==
    /\ predicates \in {<<"name", "city">>}
    /\ classifier = [name |-> 1, city |-> 1]
    /\ InitCalls
    /\ NoLoad
    /\ threshold \in Scores
    /\ NoDedupe
    /\ data_1 \in LinkDatasets
    /\ data_2 \in LinkDatasets
    /\ blocking_map_a = {}
    /\ blocking_map_b = {}
    /\ constraint \in Constraints \cup {"one-to-many"}
    /\ links = <<>>
    /\ NoGazetteer
    /\ NoTraining

NextJoin ==
    \/ JoinAssertFails
    \/ JoinScore
    \/ JoinScoreRaises
    \/ JoinLink
    \/ JoinLinkRaises
    \/ JoinReturn

SpecJoin == InitJoin /\ [][NextJoin]_vars

\* C5: in the links of one-to-one linkage no record id is the left member of
\* more than one link and no record id is the right member of more than one.
C5_OneToOneInjective ==
    (op = "join" /\ constraint = "one-to-one" /\ pc \in {"linked", "returned"}) =>
        \A i, j \in DOMAIN links :
            i # j => /\ links[i][1][1] # links[j][1][1]
                     /\ links[i][1][2] # links[j][1][2]

\* A one-to-one join has returned a link although the scored pairs held two
\* further pairs, one sharing its left record and one its right record.
C5_Witness ==
    /\ op = "join"
    /\ constraint = "one-to-one"
    /\ pc = "returned"
    /\ \E i \in DOMAIN links :
          \E e, f \in BagToSet(pair_scores) :
              /\ e[1][1] = links[i][1][1] /\ e[1][2] # links[i][1][2]
              /\ f[1][2] = links[i][1][2] /\ f[1][1] # links[i][1][1]

\* C12: join with a constraint that is none of one-to-one, many-to-one and
\* many-to-many fails with the invalid-constraint error as its first step:
\* no pairs generator was created, nothing was blocked, scored or linked, no
\* temporary directory and no score file exist, and the blocker's indices
\* are as they were.
C12_InvalidConstraint ==
    (op = "join" /\ constraint \notin Constraints) =>
        /\ pc = "raised"
        /\ exception = InvalidConstraint
        /\ gen = "none"
        /\ temp_dir = FALSE
        /\ mmap_file = FALSE
        /\ blocking_map_a = {} /\ blocking_map_b = {}
        /\ emitted = EmptyBag
        /\ pair_scores = EmptyBag
        /\ links = <<>>
        /\ indices = NoIndices

\* join was called with the constraint one-to-many on datasets that have a
\* candidate pair.
C12_Witness ==
    /\ op = "join"
    /\ constraint = "one-to-many"
    /\ pc = "raised"
    /\ SharedKeyLinkPairs(predicates, data_1, data_2) # {}

(***************************************************************************)
(* SpecGazetteer: a GazetteerMatching matcher whose caller indexes and     *)
(* unindexes canonical records and searches with the messy dataset data_1. *)
(***************************************************************************)
GazPredicateLists == {<<"name">>, <<"name", "city">>}

\* The values of n_matches; 0 stands for None.
NMatches == {0, 1}

InitGazetteer ==
    /\ predicates \in GazPredicateLists
    /\ classifier = [name |-> 1, city |-> 1]
    /\ InitCalls
    /\ NoLoad
    /\ threshold = 0
    /\ NoDedupe
    /\ data_1 \in MessyDatasets
    /\ data_2 = <<>>
    /\ blocking_map_a = {}
    /\ blocking_map_b = {}
    /\ constraint = "one-to-one"
    /\ links = <<>>
    /\ NoGazetteer
    /\ NoTraining

NextGazetteer ==
    \/ \E d \in GazDatasets : GazIndex(d)
    \/ \E ids \in (SUBSET GazIDs) \ {{}} : GazUnindex(ids)
    \/ \E ids \in (SUBSET GazIDs) \ {{}} : GazUnindexRaises(ids)
    \/ \E thr \in Scores \ {0}, n \in NMatches, descending \in BOOLEAN :
          GazSearch(thr, n, descending)

SpecGazetteer == InitGazetteer /\ [][NextGazetteer]_vars

\* The block keys posted for a record id in a table of postings.
PostingsOf(table, id) == {p.block_key : p \in {q \in table : q.record_id = id}}

\* The positions of the entries of a result list that carry a query id.
EntriesOf(res, k) == {i \in DOMAIN res : res[i][1] = k}

\* C6: search returns exactly one result entry per query id (with its
\* matches, or with the empty tuple when it has none), and no entry carries
\* an id that is not a query id.
C6_OneEntryPerQueryId ==
    (op = "search" /\ pc = "returned") =>
        /\ \A k \in DOMAIN data_1 : Cardinality(EntriesOf(results, k)) = 1
        /\ \A i \in DOMAIN results : results[i][1] \in DOMAIN data_1

\* C7: re-indexing replaces.  When index returns, every record id that it
\* has indexed anew or with a changed record has as postings exactly the
\* block keys of the record now indexed under that id; no key of an earlier
\* version of the record is left.
C7_ReindexReplaces ==
    [][(op' = "index" /\ pc' = "returned") =>
          \A id \in DOMAIN indexed_data' :
              (id \notin DOMAIN indexed_data \/ indexed_data'[id] # indexed_data[id]) =>
                  PostingsOf(indexed_records', id) = BlockKeys(predicates, indexed_data'[id])]_vars

\* The candidate ids of a result list.
CandidatesOf(res) == UNION {{res[i][2][j][1] : j \in DOMAIN res[i][2]} : i \in DOMAIN res}

\* C8: when unindex(data) returns, the ids of data (the ids that left
\* indexed_data) have no posting and no entry in indexed_data, and every
\* other id has the postings and the entry it had.  Postings come back only
\* by index, and search yields as candidates only ids that have a posting
\* and an entry in indexed_data: an unindexed id is no candidate until it is
\* indexed again.
C8_UnindexRemoves ==
    [][/\ (op' = "unindex" /\ pc' = "returned") =>
             LET ids == DOMAIN indexed_data \ DOMAIN indexed_data'
             IN  /\ ids # {}
                 /\ \A id \in ids : PostingsOf(indexed_records', id) = {}
                 /\ indexed_records' = {p \in indexed_records : p.record_id \notin ids}
                 /\ indexed_data' = [k \in DOMAIN indexed_data \ ids |-> indexed_data[k]]
       /\ \A p \in indexed_records' \ indexed_records : op' = "index"
       /\ (op' = "search" /\ pc' = "returned") =>
             \A b \in CandidatesOf(results') :
                 /\ b \in DOMAIN indexed_data'
                 /\ PostingsOf(indexed_records', b) # {}]_vars

\* unindex has returned and has left another record indexed, with its
\* postings.
C8_Witness ==
    /\ op = "unindex"
    /\ pc = "returned"
    /\ indexed_data # <<>>
    /\ \A id \in GazIDs : (PostingsOf(indexed_records, id) # {}) <=> (id \in DOMAIN indexed_data)
    /\ indexed_records # {}

(***************************************************************************)
(* SpecSettings: a static matcher is constructed from a settings file,     *)
(* which is a file of any content that was supplied, or the file an active *)
(* matcher has written with write_settings.                                *)
(***************************************************************************)

\* The settings of the active matchers that write: every predicate list and
\* every classifier.
WriterPredicates == {Obj("predicates", ps) : ps \in PredicateLists}
WriterClassifiers == {Obj("classifier", clf) : clf \in Classifiers}

InitSettings ==
    /\ \/ /\ data_model = Unset
          /\ classifier = Unset
          /\ predicates = Unset
          /\ settings_file \in SettingsFiles
       \/ /\ data_model = Obj("data_model", DataModelFields)
          /\ classifier \in WriterClassifiers
          /\ predicates \in WriterPredicates \cup {Unset}
          /\ settings_file = <<>>
    /\ exception = "none"
    /\ InitCalls
    /\ threshold = 0
    /\ NoDedupe
    /\ NoLink
    /\ NoGazetteer
    /\ NoTraining

NextSettings ==
    \/ LoadSettings
    \/ WriteSettings
    \/ WriteSettingsUntrained

SpecSettings == InitSettings /\ [][NextSettings]_vars

\* The settings file write_settings produces: data model, classifier,
\* predicate list, these three in this order.
ExpectedSettings == <<"data_model", "classifier", "predicates">>

\* C10: loading a settings file whose objects are not the data model, the
\* classifier and the predicate list, these three in this order, fails with
\* the incompatible-settings failure (not the generic one), and a matcher
\* that was loaded holds a data model, a classifier and a predicate list.
C10_IncompatibleSettings ==
    (op = "load") =>
        /\ (KindsOf(settings_file) # ExpectedSettings) =>
               (pc = "raised" /\ exception = NotCompatible)
        /\ (pc = "returned") =>
               /\ data_model.kind = "data_model"
               /\ classifier.kind = "classifier"
               /\ predicates.kind = "predicates"

\* The pairs of a dataset under a predicate list, and their scores.
PairsOf(preds, d) == SelectDistinct(DedupeJoin(Blocker(preds, d)))
ScoresOf(clf, d) == [pr \in (DOMAIN d) \X (DOMAIN d) |-> Probability(clf, d[pr[1]], d[pr[2]])]

\* C11: settings round-trip.  write_settings writes the data model, the
\* classifier and the predicates in this order, and the static matcher that
\* is loaded from the file written has the data model, the classifier and
\* the predicate list of the matcher that wrote it, hence its pairs and its
\* scores on every dataset.
C11_SettingsRoundTrip ==
    [][/\ (op' = "write_settings" /\ pc' = "returned") =>
             settings_file' = <<data_model, classifier, predicates>>
       /\ (op = "write_settings" /\ pc = "returned" /\ op' = "load") =>
             /\ pc' = "returned"
             /\ data_model' = data_model
             /\ classifier' = classifier
             /\ predicates' = predicates
             /\ \A d \in Datasets :
                   /\ PairsOf(predicates'.value, d) = PairsOf(predicates.value, d)
                   /\ ScoresOf(classifier'.value, d) = ScoresOf(classifier.value, d)]_vars

\* A static matcher has been loaded from a file that a matcher of several
\* predicates and of unequal weights has written.
C11_Witness ==
    /\ op = "load"
    /\ pc = "returned"
    /\ settings_file = <<data_model, classifier, predicates>>
    /\ KindsOf(settings_file) = ExpectedSettings
    /\ Len(predicates.value) >= 2
    /\ classifier.value.name # classifier.value.city

(***************************************************************************)
(* SpecTraining: an active Dedupe matcher whose caller calls               *)
(* prepare_training, mark_pairs, uncertain_pairs and train in any order.   *)
(* The arguments are the caller's: the dataset and the training file of    *)
(* prepare_training, the labelled pairs of mark_pairs.                     *)
(***************************************************************************)
InitTraining ==
    /\ predicates = Unset
    /\ classifier = Unset
    /\ InitCalls
    /\ NoLoad
    /\ threshold = 0
    /\ data \in TrainDatasets
    /\ blocking_map = {}
    /\ clusters = <<>>
    /\ NoLink
    /\ NoGazetteer
    /\ NewMatchers([m \in Matchers |-> FALSE])
    /\ labeled_pairs \in LabelledPairs
    /\ training_file \in TrainingFiles

NextTraining ==
    \/ PrepareTraining(1)
    \/ MarkPairs(1)
    \/ UncertainPairs(1)
    \/ Train(1)

SpecTraining == InitTraining /\ [][NextTraining]_vars

\* A record of the labelled pairs lp lacks a field of the data model.
LacksField(lp) ==
    \/ \E i \in DOMAIN lp.match : ~ checkRecordPair(lp.match[i])
    \/ \E i \in DOMAIN lp.distinct : ~ checkRecordPair(lp.distinct[i])

\* C13: a call of mark_pairs whose labelled pairs hold a record that lacks a
\* field of the data model, at whatever position, and a call of
\* prepare_training whose dataset holds such a record, at whatever position,
\* fail with a schema error.
C13_SchemaError ==
    /\ (op = "mark_pairs" /\ LacksField(labeled_pairs)) =>
           (pc = "raised" /\ exception = "SchemaError")
    /\ (op = "prepare_training" /\ \E i \in DOMAIN data : ~ check(data[i])) =>
           (pc = "raised" /\ exception = "SchemaError")

\* C14: uncertain_pairs and train, called on a matcher that has no learner
\* because no sample was initialised, fail with the assertion's message and
\* change nothing: the classifier is not fitted, predicates and blocker are
\* not set, training_pairs and the learner are as before.
C14_NoSample ==
    [][(op' \in {"uncertain_pairs", "train"} /\ ~ active_learner[matcher'].exists) =>
          /\ pc' = "raised"
          /\ exception' = NoSample
          /\ clf_state' = clf_state
          /\ learned' = learned
          /\ indices' = indices
          /\ training_pairs' = training_pairs
          /\ active_learner' = active_learner]_vars

\* train has failed on a matcher that holds labelled pairs and no learner.
C14_Witness ==
    /\ op = "train"
    /\ pc = "raised"
    /\ exception = NoSample
    /\ ~ active_learner[matcher].exists
    /\ training_pairs[matcher] # NoPairs
    /\ clf_state[clf_obj[matcher]] = Unfitted
    /\ learned[matcher] = Unset

(***************************************************************************)
(* SpecSharedClassifier: two active Dedupe matchers of one process,        *)
(* neither given a classifier of its own, whose caller calls               *)
(* prepare_training, mark_pairs, uncertain_pairs and train on either, with *)
(* a dataset of one record and one labelled pair a call.                   *)
(***************************************************************************)
InitSharedClassifier ==
    /\ predicates = Unset
    /\ classifier = Unset
    /\ InitCalls
    /\ NoLoad
    /\ threshold = 0
    /\ data \in {d \in TrainDatasets : Len(d) = 1}
    /\ blocking_map = {}
    /\ clusters = <<>>
    /\ NoLink
    /\ NoGazetteer
    /\ NewMatchers([m \in Matchers |-> FALSE])
    /\ labeled_pairs \in {lp \in LabelledPairs : Labelled(lp) = 1}
    /\ training_file = [given |-> FALSE, pairs |-> NoPairs]

NextSharedClassifier ==
    \E m \in Matchers :
        \/ PrepareTraining(m)
        \/ MarkPairs(m)
        \/ UncertainPairs(m)
        \/ Train(m)

SpecSharedClassifier == InitSharedClassifier /\ [][NextSharedClassifier]_vars

\* The score matcher m gives a record pair: its classifier object's
\* predict_proba (score, lines 107-113).
ScoreBy(m, ra, rb) == Probability(clf_state[clf_obj[m]], ra, rb)

\* C15: of two matchers neither of which was given a classifier of its own,
\* a train() that returns on one refits the classifier object the other
\* scores with: after the call the other matcher's classifier is the fit to
\* the training pairs of the matcher that was trained.
C15_SharedClassifier ==
    [][(op' = "train" /\ pc' = "returned") =>
          \A n \in Matchers \ {matcher'} :
              /\ clf_obj[n] = clf_obj[matcher']
              /\ clf_state'[clf_obj[n]] = Fit(flatten_training(training_pairs[matcher']))
              /\ \A ra \in {Complete, Other}, rb \in {Complete, Other} :
                    Probability(clf_state'[clf_obj'[n]], ra, rb)
                    = Probability(Fit(flatten_training(training_pairs[matcher'])), ra, rb)]_vars

\* train has returned on matcher 1, and matcher 2, which has no training pairs
\* and no learner, gives a pair of records another score than an unfitted
\* classifier does.
C15_Witness ==
    /\ op = "train"
    /\ pc = "returned"
    /\ matcher = 1
    /\ training_pairs[2] = NoPairs
    /\ ~ active_learner[2].exists
    /\ clf_state[clf_obj[2]].fitted
    /\ ScoreBy(2, Complete, Other) # Probability(Unfitted, Complete, Other)

(***************************************************************************)
(* SpecBlocks: a gazetteer whose caller calls index, unindex and blocks in *)
(* any order and runs, or abandons, the generator blocks returns; index    *)
(* and unindex may be called while the generator is suspended at a yield.  *)
(* The caller indexes and unindexes one record a call.                     *)
(***************************************************************************)
\* The dataset blocks is called with: two records, one named Pat and one
\* named Sam.
QueryData ==
    [k \in {1, 2} |-> [name |-> IF k = 1 THEN "Pat" ELSE "Sam", city |-> "x"]]

InitBlocks ==
    /\ predicates \in GazPredicateLists
    /\ classifier = [name |-> 1, city |-> 1]
    /\ InitCalls
    /\ NoLoad
    /\ threshold = 0
    /\ NoDedupe
    /\ data_1 = QueryData
    /\ data_2 = <<>>
    /\ blocking_map_a = {}
    /\ blocking_map_b = {}
    /\ constraint = "one-to-one"
    /\ links = <<>>
    /\ NoGazetteer
    /\ NoTraining

NextBlocks ==
    \/ \E d \in {e \in GazDatasets : Cardinality(DOMAIN e) = 1} : GazIndex(d)
    \/ \E k \in GazIDs : GazUnindex({k})
    \/ BlocksCall
    \/ BlocksStart
    \/ BlocksNext
    \/ BlocksClose

SpecBlocks == InitBlocks /\ [][NextBlocks]_vars

\* The query id of a yielded block: the id of the first member of its
\* first pair.
QueryId(block) == block[1][1][1]

\* The query ids that share a block key with a posting of the persisted
\* index.
QueriesWithCandidates ==
    {a \in DOMAIN data_1 :
        \E p \in indexed_records : p.block_key \in BlockKeys(predicates, data_1[a])}

\* C16: while no index or unindex call was made since blocks was called,
\* every yielded block holds pairs of one query id only and no pair of ids
\* twice, the blocks come in strictly ascending order of their query ids
\* (so no query id has two blocks), every pair carries the query's record
\* and the record indexed_data holds for the candidate, and a generator run
\* to its end has yielded a block for every query id that has a candidate
\* in the persisted index and for no other.
C16_BlocksGrouped ==
    (op = "blocks") =>
        /\ \A i \in DOMAIN blocks :
              /\ blocks[i] # <<>>
              /\ \A j \in DOMAIN blocks[i] :
                    /\ blocks[i][j][1][1] = QueryId(blocks[i])
                    /\ blocks[i][j][1][2] = data_1[blocks[i][j][1][1]]
                    /\ blocks[i][j][2][2] = indexed_data[blocks[i][j][2][1]]
              /\ \A j, k \in DOMAIN blocks[i] :
                    j # k => PairIds(blocks[i][j]) # PairIds(blocks[i][k])
        /\ \A i, k \in DOMAIN blocks : i < k => QueryId(blocks[i]) < QueryId(blocks[k])
        /\ gen = "exhausted" =>
              {QueryId(blocks[i]) : i \in DOMAIN blocks} = QueriesWithCandidates

\* A generator run to its end has yielded two blocks, the first of two
\* pairs, and a candidate of it carries a record that replaced another
\* under the same id.
C16_Witness ==
    /\ op = "blocks"
    /\ gen = "exhausted"
    /\ Len(blocks) = 2
    /\ Len(blocks[1]) = 2
    /\ \E p \in indexed_records :
          /\ p.record_id = blocks[1][1][2][1]
          /\ p.block_key \notin BlockKeys(predicates, indexed_data[p.record_id])

\* The dataset {1: Pat, 2: Pat, 3: Sam}, whatever the cities.
PatPatSam(d) ==
    /\ DOMAIN d = {1, 2, 3}
    /\ d[1].name = "Pat"
    /\ d[2].name = "Pat"
    /\ d[3].name = "Sam"

\* C17: every id of the dataset that is in no cluster of several records is
\* returned by partition as the cluster ((id,), (1.0,)), at one position of
\* the result only; for the dataset {1: Pat, 2: Pat, 3: Sam} blocked on the
\* exact name with threshold 0.5 the candidate pairs are {(1, 2)} and
\* ((3,), (1.0,)) is returned.
C17_Singletons ==
    (op = "partition" /\ pc \in {"clustered", "returned"}) =>
        /\ \A id \in DOMAIN data :
              (\A i \in ClustersOf(clusters, id) : Len(clusters[i][1]) = 1) =>
                  /\ Cardinality(ClustersOf(clusters, id)) = 1
                  /\ \E i \in DOMAIN clusters : clusters[i] = <<<<id>>, <<ScoreOne>>>>
        /\ (PatPatSam(data) /\ predicates = <<"name">> /\ threshold = 1) =>
              /\ {PairIds(rp) : rp \in BagToSet(emitted)} = {<<1, 2>>}
              /\ \E i \in DOMAIN clusters : clusters[i] = <<<<3>>, <<ScoreOne>>>>

\* partition has returned for the dataset {1: Pat, 2: Pat, 3: Sam} blocked on
\* the exact name with threshold 0.5: the cluster (1, 2) and the singleton 3.
C17_Witness ==
    /\ op = "partition"
    /\ pc = "returned"
    /\ PatPatSam(data)
    /\ predicates = <<"name">>
    /\ threshold = 1
    /\ Len(clusters) = 2
    /\ clusters[1][1] = <<1, 2>>
    /\ clusters[2] = <<<<3>>, <<ScoreOne>>>>

(***************************************************************************)
(* SpecPairsTwice: a matcher, DedupeMatching or RecordLinkMatching, whose  *)
(* predicates may read the blocker's indices, and whose caller calls pairs *)
(* on the same data again and again, running each generator to its end or  *)
(* dropping it.                                                            *)
(***************************************************************************)
IndexedPredicateLists == {<<"name">>, <<"name_index">>, <<"name_index", "city">>}

InitPairsTwice ==
    /\ predicates \in IndexedPredicateLists
    /\ classifier = [name |-> 1, city |-> 1]
    /\ InitCalls
    /\ NoLoad
    /\ threshold = 0
    /\ \/ data \in Datasets /\ blocking_map = {} /\ clusters = <<>> /\ NoLink
       \/ /\ NoDedupe
          /\ data_1 \in LinkDatasets
          /\ data_2 \in LinkDatasets
          /\ blocking_map_a = {}
          /\ blocking_map_b = {}
          /\ constraint = "one-to-one"
          /\ links = <<>>
    /\ NoGazetteer
    /\ NoTraining

NextPairsTwice ==
    \/ data # <<>> /\ NextDedupe
    \/ data_1 # <<>> /\ NextLinkPairs

SpecPairsTwice == InitPairsTwice /\ [][NextPairsTwice]_vars

\* The id pairs that a call of DedupeMatching.pairs(data) run to its end
\* yields on a blocker whose indices are idx (lines 224-253).
DedupePairsFrom(idx) ==
    LET map == IndexedBlocker(predicates, data, indexAll(idx, predicates, data))
    IN  BagToSet(SelectDistinct(DedupeJoin(map)))

\* The id pairs that a call of RecordLinkMatching.pairs(data_1, data_2) run to
\* its end yields on a blocker whose indices are idx (lines 347-388).
LinkPairsFrom(idx) ==
    LET built == indexAll(idx, predicates, data_2)
    IN  BagToSet(SelectDistinct(LinkJoin(IndexedBlocker(predicates, data_1, built),
                                         IndexedBlocker(predicates, data_2, built))))

\* C18: when a pairs call has run to its end, the blocker's indices are reset
\* and no posting table and no directory is left, and a second call with
\* the same data, from the state the first has left, yields the set of id
\* pairs the first has yielded; in deduplication and in record linkage.
C18_PairsTwice ==
    (op = "pairs" /\ gen = "exhausted") =>
        /\ indices = NoIndices
        /\ temp_dir = FALSE
        /\ blocking_map = {}
        /\ blocking_map_a = {}
        /\ blocking_map_b = {}
        /\ data # <<>> => DedupePairsFrom(indices) = EmittedIds
        /\ data_1 # <<>> => LinkPairsFrom(indices) = EmittedIds

\* A pairs call of record linkage whose predicates read an index has run to
\* its end and has yielded a pair.
C18_Witness ==
    /\ op = "pairs"
    /\ gen = "exhausted"
    /\ data_1 # <<>>
    /\ "name_index" \in Range(predicates)
    /\ EmittedIds # {}

(***************************************************************************)
(* SpecThreshold: a RecordLinkMatching matcher whose caller calls join, or *)
(* a DedupeMatching matcher whose caller calls partition, with a threshold *)
(* of the caller's choice.                                                 *)
(***************************************************************************)
InitThreshold == InitJoin \/ InitPartition

NextThreshold ==
    \/ data_1 # <<>> /\ NextJoin
    \/ data # <<>> /\ NextPartition

SpecThreshold == InitThreshold /\ [][NextThreshold]_vars

\* The rows (pair of ids, score) of the candidate pairs yielded by pairs
\* whose score is at or above thr.
ScoredCandidates(thr) ==
    {<<PairIds(rp), Probability(classifier, rp[1][2], rp[2][2])>> :
        rp \in {x \in BagToSet(emitted) :
                  Probability(classifier, x[1][2], x[2][2]) >= thr}}

C20_CleanSlate ==
    []((op = "blocks" /\ gen = "created") => (~ in_transaction /\ temp_table = "none"))

\* C21: after every sequence of index and unindex calls, an unindex call that
\* fails on an id that was never indexed included, every record id that has a
\* posting in indexed_records is a key of indexed_data, so that the lookup
\* self.indexed_data[b_record_id] is defined for every row that blocks
\* selects for the query data.
C21_PostingsHaveRecords ==
    /\ \A p \in indexed_records : p.record_id \in DOMAIN indexed_data
    /\ \A r \in GazJoin(IndexedBlocker(predicates, data_1, indices), indexed_records) :
          r[2] \in DOMAIN indexed_data

\* An unindex call has failed on an id that was never indexed, and the index
\* still holds a posting that the query data is joined to.
C21_Witness ==
    /\ op = "unindex"
    /\ pc = "raised"
    /\ table_exists
    /\ GazJoin(IndexedBlocker(predicates, data_1, indices), indexed_records) # {}

\* C22: a mark_pairs call that raises, in the validation of labeled_pairs or
\* in the learner's mark, leaves training_pairs as it was before the call; a
\* mark_pairs call that returns has appended the match pairs and the
\* distinct pairs of labeled_pairs to the end of their lists, duplicates
\* kept, the earlier labels in place.
C22_MarkPairsAtomic ==
    [][(op' = "mark_pairs") =>
          /\ pc' = "raised" => training_pairs' = training_pairs
          /\ pc' = "returned" =>
                training_pairs' = [training_pairs EXCEPT
                                      ![matcher'] = Extend(@, labeled_pairs)]]_vars

\* The multiset of the elements of a sequence.
BagOfSeq(q) == [x \in Range(q) |-> Cardinality({i \in DOMAIN q : q[i] = x})]

\* The multiset of labelled examples of training pairs: every pair of
\* 'match' with label 1 and every pair of 'distinct' with label 0.
LabelsOf(tp) ==
    BagOfSeq([i \in DOMAIN tp.match |-> <<tp.match[i], 1>>]
             \o [i \in DOMAIN tp.distinct |-> <<tp.distinct[i], 0>>])

\* The learner of matcher m, if there is one, has been given the labelled
\* examples of training_pairs, each as often as it is there.
LearnerHasLabels(m) ==
    active_learner[m].exists =>
        BagOfSeq(active_learner[m].marked) = LabelsOf(training_pairs[m])

\* C23: through every prepare_training and mark_pairs call that returns
\* normally, the labelled examples marked in the current learner stay the
\* multiset of training_pairs (match labelled 1, distinct labelled 0): a
\* learner that prepare_training creates is given every label collected
\* before it, those of a training file included, and mark_pairs gives the
\* same pairs to both.
C23_LearnerLabels ==
    [][(/\ op' \in {"prepare_training", "mark_pairs"}
        /\ pc' = "returned"
        /\ LearnerHasLabels(matcher')) =>
          /\ active_learner'[matcher'].exists =>
                BagOfSeq(active_learner'[matcher'].marked)
                = LabelsOf(training_pairs'[matcher'])]_vars

\* prepare_training has returned with a training file on a matcher that held
\* a label before: the new learner has the label of the file and the
\* earlier one.
C23_Witness ==
    /\ op = "prepare_training"
    /\ pc = "returned"
    /\ training_file.given
    /\ Labelled(training_file.pairs) = 1
    /\ Labelled(training_pairs[matcher]) = 2
    /\ active_learner[matcher].exists
    /\ Len(active_learner[matcher].marked) = 2
    /\ LearnerHasLabels(matcher)

\* C24: prepare_training called with a dataset of no record, with or without
\* a training file (whose pairs pass the validation when it is passed),
\* fails with the empty-input error and leaves the matcher as it was: no
\* learner is created or replaced and training_pairs is unchanged.
C24_EmptyInput ==
    [][(/\ op' = "prepare_training"
        /\ Len(data) = 0
        /\ training_file.given => checkTrainingPairs(training_file.pairs)) =>
          /\ pc' = "raised"
          /\ exception' = "EmptyInput"
          /\ training_pairs' = training_pairs
          /\ active_learner'[matcher'].exists = active_learner[matcher'].exists
          /\ active_learner'[matcher'].data = active_learner[matcher'].data]_vars

====
